---------------------------- MODULE Spec2Model ----------------------------
(***************************************************************************)
(* Melody similarity scoring engine of score-the-songs.                    *)
(*                                                                         *)
(* The four scoring policies (improved_comparison.py,                      *)
(* sequential_comparison.py, strict_comparison.py and                      *)
(* ultra_strict_comparison.py) are pure functions of a reference and a     *)
(* test pitch sequence.  Every metric is an operator computed the way the  *)
(* code computes it; every policy is one action that applies the whole     *)
(* score function to the loaded sequences.                                 *)
(*                                                                         *)
(* Numbers.  The code computes in IEEE doubles.  Scores are modelled in    *)
(* fixed point: the integer v stands for the score v / Scale, so 100.0 is  *)
(* 100 * Scale.  Quantities that are rational in the code (match ratios,   *)
(* the weighted sums) are exact up to the floor of the last division;      *)
(* square roots and exp are computed to the same resolution.               *)
(***************************************************************************)
EXTENDS Integers, Sequences, FiniteSets, TLC

VARIABLES ref_sqnc, test_sqnc, pc, callee, scores, final_score, alignment, tolerance,
          weighted, max_gap, ref_txt, parsed, norm1, dtw_dist, pearson_r, aligned_n,
          app, compare_btn, reference_file, test_file, worker

\* the inputs of the scoring curves of sequential_comparison.py
curve_vars == <<dtw_dist, pearson_r, aligned_n>>

\* the state of a GUI front-end
gui_vars == <<app, compare_btn, reference_file, test_file, worker>>

vars == <<ref_sqnc, test_sqnc, pc, callee, scores, final_score, alignment, tolerance,
          weighted, max_gap, ref_txt, parsed, norm1, curve_vars, gui_vars>>

---------------------------------------------------------------------------
(* Bounds of the model *)

\* longest sequence enumerated exhaustively
MaxLen == 3
\* largest transposition (in semitones) applied to the reference
MaxShift == 1
\* largest LCS tolerance tried by a direct call
MaxTol == 1
\* largest max_gap tried by a direct call of exact_pattern_match
MaxGap == 2
\* largest number of clicks on the compare button of a GUI, each of which
\* may start one run of compare_melodies
MaxClicks == 2
\* largest normalised DTW distance handed to the curve of dtw_similarity,
\* in steps of 1 / Scale
MaxDist == 1500

\* fixed-point resolution: Scale units per score point
Scale == 10 * 10 * 10

Hundred == 100 * Scale

---------------------------------------------------------------------------
(* Arithmetic helpers *)

Abs(x) == IF x < 0 THEN -x ELSE x

Min2(a, b) == IF a <= b THEN a ELSE b

Max2(a, b) == IF a >= b THEN a ELSE b

\* np.sign
Sign(x) == IF x > 0 THEN 1 ELSE IF x < 0 THEN -1 ELSE 0

\* truncating division of a possibly negative numerator by a positive one
Quot(a, b) == IF a >= 0 THEN a \div b ELSE -((-a) \div b)

\* num / den * 100 as a fixed-point score
Pct(num, den) == (num * Hundred) \div den

RECURSIVE SumSeq(_)
SumSeq(s) == IF s = <<>> THEN 0 ELSE Head(s) + SumSeq(Tail(s))

SeqMax(s) == CHOOSE x \in {s[i] : i \in 1..Len(s)} :
                 \A y \in {s[i] : i \in 1..Len(s)} : y <= x

SeqMin(s) == CHOOSE x \in {s[i] : i \in 1..Len(s)} :
                 \A y \in {s[i] : i \in 1..Len(s)} : x <= y

---------------------------------------------------------------------------
(* Feature derivation *)

\* variant: the notes after the first, without the subtraction
extract_intervals_noDiff(midi_sequence) ==
    IF Len(midi_sequence) < 2 THEN <<>>
    ELSE [i \in 1..(Len(midi_sequence) - 1) |-> midi_sequence[i + 1]]

\* extract_intervals: consecutive differences, empty below two notes
extract_intervals(midi_sequence) ==
    IF Len(midi_sequence) < 2 THEN <<>>
    ELSE [i \in 1..(Len(midi_sequence) - 1) |->
              midi_sequence[i + 1] - midi_sequence[i]]

\* extract_contour: sign of every interval
extract_contour(intervals) ==
    [i \in 1..Len(intervals) |-> Sign(intervals[i])]

---------------------------------------------------------------------------
(* ultra_strict_comparison.py: integer metrics *)

\* one row of the LCS table from the previous row; row[j+1] is dp[i][j]
RECURSIVE LcsRow(_, _, _, _, _, _)
LcsRow(seq1, seq2, i, tol, prev, row) ==
    LET j == Len(row)
    IN  IF j > Len(seq2) THEN row
        ELSE LcsRow(seq1, seq2, i, tol, prev,
                    Append(row,
                        IF Abs(seq1[i] - seq2[j]) <= tol
                        THEN prev[j] + 1
                        ELSE Max2(prev[j + 1], row[j])))

RECURSIVE LcsTable(_, _, _, _, _)
LcsTable(seq1, seq2, tol, i, prev) ==
    IF i > Len(seq1) THEN prev
    ELSE LcsTable(seq1, seq2, tol, i + 1,
                  LcsRow(seq1, seq2, i, tol, prev, <<0>>))

\* variant: the match test is one semitone wider than the tolerance
LcsLength_widerTolerance(seq1, seq2, tol) ==
    LcsTable(seq1, seq2, tol + 1, 1, [j \in 1..(Len(seq2) + 1) |-> 0])[Len(seq2) + 1]

\* dp[m][n] of longest_common_subsequence
LcsLength(seq1, seq2, tol) ==
    LcsTable(seq1, seq2, tol, 1, [j \in 1..(Len(seq2) + 1) |-> 0])[Len(seq2) + 1]

\* variant: the tolerance argument is ignored (exact matches only)
longest_common_subsequence_exact(seq1, seq2, tol) ==
    LET max_possible == Max2(Len(seq1), Len(seq2))
    IN  IF max_possible > 0
        THEN Pct(LcsLength(seq1, seq2, 0), max_possible)
        ELSE 0

\* variant: two empty sequences count as identical
longest_common_subsequence_emptyEqual(seq1, seq2, tol) ==
    LET max_possible == Max2(Len(seq1), Len(seq2))
    IN  IF max_possible > 0
        THEN Pct(LcsLength(seq1, seq2, tol), max_possible)
        ELSE Hundred

longest_common_subsequence(seq1, seq2, tol) ==
    LET max_possible == Max2(Len(seq1), Len(seq2))
    IN  IF max_possible > 0
        THEN Pct(LcsLength(seq1, seq2, tol), max_possible)
        ELSE 0

\* inner loop of exact_pattern_match at offset i (0-based), position j (0-based)
RECURSIVE WindowMatches(_, _, _, _, _, _, _)
WindowMatches(pattern, target, i, j, matches, gaps, gap) ==
    IF j >= Len(pattern) THEN matches
    ELSE IF i + j < Len(target)
         THEN IF pattern[j + 1] = target[i + j + 1]
              THEN WindowMatches(pattern, target, i, j + 1, matches + 1, gaps, gap)
              ELSE IF gaps + 1 > gap
                   THEN matches
                   ELSE WindowMatches(pattern, target, i, j + 1, matches, gaps + 1, gap)
         ELSE WindowMatches(pattern, target, i, j + 1, matches, gaps, gap)

\* variant: a window is never abandoned, all its positional matches count
exact_pattern_match_noBreak(pattern, target, gap) ==
    IF Len(pattern) = 0 \/ Len(target) = 0 THEN 0
    ELSE LET offsets == 0..(Len(target) - Len(pattern))
             counts == {Cardinality({k \in 1..Len(pattern) : pattern[k] = target[i + k]}) :
                           i \in offsets}
             best == IF counts = {} THEN 0
                     ELSE CHOOSE c \in counts : \A d \in counts : d <= c
         IN  Pct(best, Len(pattern))

\* variant: the shorter argument slides over the longer one, whichever
\* comes first
exact_pattern_match_shorterSlides(pattern, target, gap) ==
    IF Len(pattern) = 0 \/ Len(target) = 0 THEN 0
    ELSE LET short == IF Len(pattern) <= Len(target) THEN pattern ELSE target
             long == IF Len(pattern) <= Len(target) THEN target ELSE pattern
             counts == {WindowMatches(short, long, i, 0, 0, 0, gap) :
                           i \in 0..(Len(long) - Len(short))}
         IN  Pct(CHOOSE c \in counts : \A d \in counts : d <= c, Len(short))

exact_pattern_match(pattern, target, gap) ==
    IF Len(pattern) = 0 \/ Len(target) = 0 THEN 0
    ELSE LET offsets == 0..(Len(target) - Len(pattern))
             counts == {WindowMatches(pattern, target, i, 0, 0, 0, gap) : i \in offsets}
             best == IF counts = {} THEN 0
                     ELSE CHOOSE c \in counts : \A d \in counts : d <= c
         IN  Pct(best, Len(pattern))

\* the 3-element windows of an interval sequence, by start index
Motif(intervals, i) == <<intervals[i], intervals[i + 1], intervals[i + 2]>>

MotifMatch(m1, m2) == \A k \in 1..3 : Abs(m1[k] - m2[k]) <= 1

\* all 3-element motifs of an interval sequence, in order
Motifs(intervals) == [i \in 1..(Len(intervals) - 2) |-> Motif(intervals, i)]

\* the inner loop from motifs2[k] on: 1 at the first motif matching m1 (the
\* loop breaks there), 0 if there is none
RECURSIVE MotifInnerLoop(_, _, _)
MotifInnerLoop(m1, motifs2, k) ==
    IF k > Len(motifs2) THEN 0
    ELSE IF MotifMatch(m1, motifs2[k]) THEN 1
    ELSE MotifInnerLoop(m1, motifs2, k + 1)

\* the outer loop from motifs1[i] on, with the matches counted so far
RECURSIVE MotifOuterLoop(_, _, _, _)
MotifOuterLoop(motifs1, motifs2, i, matches) ==
    IF i > Len(motifs1) THEN matches
    ELSE MotifOuterLoop(motifs1, motifs2, i + 1,
                        matches + MotifInnerLoop(motifs1[i], motifs2, 1))

\* variant: the inner loop has no break, every matching pair of motifs counts
melodic_motif_similarity_noBreak(intervals1, intervals2) ==
    IF Len(intervals1) < 3 \/ Len(intervals2) < 3 THEN 0
    ELSE LET motifs1 == Motifs(intervals1)
             motifs2 == Motifs(intervals2)
             matches == Cardinality({p \in (1..Len(motifs1)) \X (1..Len(motifs2)) :
                                        MotifMatch(motifs1[p[1]], motifs2[p[2]])})
         IN  Pct(matches, Len(motifs1))

melodic_motif_similarity(intervals1, intervals2) ==
    IF Len(intervals1) < 3 \/ Len(intervals2) < 3 THEN 0
    ELSE LET motifs1 == Motifs(intervals1)
             motifs2 == Motifs(intervals2)
         IN  IF Len(motifs1) = 0 \/ Len(motifs2) = 0 THEN 0
             ELSE Pct(MotifOuterLoop(motifs1, motifs2, 1, 0), Len(motifs1))

PitchClasses(midi_seq) == {midi_seq[i] % 12 : i \in 1..Len(midi_seq)}

\* variant: the 50% test is inverted (jaccard > 0.5 returns 0)
pitch_class_overlap_inverted(midi_seq1, midi_seq2) ==
    IF Len(midi_seq1) = 0 \/ Len(midi_seq2) = 0 THEN 0
    ELSE LET pc1 == PitchClasses(midi_seq1)
             pc2 == PitchClasses(midi_seq2)
             intersection == Cardinality(pc1 \cap pc2)
             union == Cardinality(pc1 \cup pc2)
         IN  IF union = 0 THEN 0
             ELSE IF 2 * intersection > union THEN 0
             ELSE Pct(2 * intersection - union, union)

pitch_class_overlap(midi_seq1, midi_seq2) ==
    IF Len(midi_seq1) = 0 \/ Len(midi_seq2) = 0 THEN 0
    ELSE LET pc1 == PitchClasses(midi_seq1)
             pc2 == PitchClasses(midi_seq2)
             intersection == Cardinality(pc1 \cap pc2)
             union == Cardinality(pc1 \cup pc2)
         IN  IF union = 0 THEN 0
             ELSE IF 2 * intersection < union THEN 0
             ELSE Pct(2 * intersection - union, union)

---------------------------------------------------------------------------
(* Normalisation, DTW alignment and Pearson correlation *)

\* floor of the square root, by bisection on lo..hi (lo*lo <= v < hi*hi)
RECURSIVE ISqrtIn(_, _, _)
ISqrtIn(v, lo, hi) ==
    IF hi - lo <= 1 THEN lo
    ELSE LET mid == (lo + hi) \div 2
         IN  IF mid * mid <= v THEN ISqrtIn(v, mid, hi) ELSE ISqrtIn(v, lo, mid)

ISqrt(v) == ISqrtIn(v, 0, 46341)

RECURSIVE SumSq(_)
SumSq(s) == IF s = <<>> THEN 0 ELSE Head(s) * Head(s) + SumSq(Tail(s))

\* n^2 times the population variance of s (an integer): n*sum(x^2) - sum(x)^2
VarN2(s) == Len(s) * SumSq(s) - SumSeq(s) * SumSeq(s)

\* variant: a sequence without deviation is returned as it is, the mean
\* not subtracted
normalize_sequence_unshifted(seq) ==
    IF Len(seq) = 0 THEN <<>>
    ELSE LET n == Len(seq)
             S == SumSeq(seq)
             V == VarN2(seq)
         IN  IF V = 0
             THEN [i \in 1..n |-> seq[i] * Scale]
             ELSE [i \in 1..n |->
                      Quot((n * seq[i] - S) * Scale * Scale, ISqrt(V * Scale * Scale))]

\* normalize_sequence: (x - mean) / std, or x - mean when std == 0; the
\* result is in fixed point (Scale units per 1.0)
normalize_sequence(seq) ==
    IF Len(seq) = 0 THEN <<>>
    ELSE LET n == Len(seq)
             S == SumSeq(seq)
             V == VarN2(seq)
         IN  IF V = 0
             THEN [i \in 1..n |-> Quot((n * seq[i] - S) * Scale, n)]
             ELSE [i \in 1..n |->
                      Quot((n * seq[i] - S) * Scale * Scale, ISqrt(V * Scale * Scale))]

\* variant: the symmetric1 step pattern (a diagonal step costs the local
\* cost once)
DtwCell_symmetric1(lm, diag, left, up) ==
    LET cands == (IF diag = <<>> THEN {} ELSE {<<diag[1] + lm, 1>>})
                 \cup (IF left = <<>> THEN {} ELSE {<<left[1] + lm, 2>>})
                 \cup (IF up = <<>> THEN {} ELSE {<<up[1] + lm, 3>>})
    IN  IF cands = {} THEN <<lm, 0>>
        ELSE CHOOSE c \in cands :
                 \A d \in cands : c[1] < d[1] \/ (c[1] = d[1] /\ c[2] <= d[2])

\* dtw(x, y, keep_internals=True) of the dtw-python package with its defaults:
\* local cost |x[i] - y[j]|, step pattern symmetric2 (a diagonal step costs
\* twice the local cost, a horizontal or vertical step once), no window, both
\* ends fixed.  A cell is <<cumulative cost, step taken>>; the step is 1 for
\* the diagonal (i-1, j-1), 2 for (i, j-1), 3 for (i-1, j), and the first
\* minimal step in that order is taken.
DtwCell(lm, diag, left, up) ==
    LET cands == (IF diag = <<>> THEN {} ELSE {<<diag[1] + 2 * lm, 1>>})
                 \cup (IF left = <<>> THEN {} ELSE {<<left[1] + lm, 2>>})
                 \cup (IF up = <<>> THEN {} ELSE {<<up[1] + lm, 3>>})
    IN  IF cands = {} THEN <<lm, 0>>
        ELSE CHOOSE c \in cands :
                 \A d \in cands : c[1] < d[1] \/ (c[1] = d[1] /\ c[2] <= d[2])

RECURSIVE DtwRow(_, _, _, _, _)
DtwRow(x, y, i, prev, row) ==
    LET j == Len(row) + 1
    IN  IF j > Len(y) THEN row
        ELSE DtwRow(x, y, i, prev,
                 Append(row,
                     DtwCell(Abs(x[i] - y[j]),
                             IF i > 1 /\ j > 1 THEN prev[j - 1] ELSE <<>>,
                             IF j > 1 THEN row[j - 1] ELSE <<>>,
                             IF i > 1 THEN prev[j] ELSE <<>>)))

RECURSIVE DtwMatrix(_, _, _)
DtwMatrix(x, y, rows) ==
    LET i == Len(rows) + 1
    IN  IF i > Len(x) THEN rows
        ELSE DtwMatrix(x, y,
                 Append(rows, DtwRow(x, y, i, IF i > 1 THEN rows[i - 1] ELSE <<>>, <<>>)))

\* one backtracking step from cell (i, j) (1-based) along the recorded step
DtwStep(step, i, j) ==
    IF step = 1 THEN <<i - 1, j - 1>>
    ELSE IF step = 2 THEN <<i, j - 1>>
    ELSE <<i - 1, j>>

\* walk back from (i, j) to (1, 1); the index lists are 0-based as in
\* alignment.index1 / alignment.index2
RECURSIVE DtwBacktrack(_, _, _, _, _)
DtwBacktrack(cm, i, j, index1, index2) ==
    LET i1 == <<i - 1>> \o index1
        i2 == <<j - 1>> \o index2
    IN  IF cm[i][j][2] = 0 THEN [index1 |-> i1, index2 |-> i2]
        ELSE LET p == DtwStep(cm[i][j][2], i, j)
             IN  DtwBacktrack(cm, p[1], p[2], i1, i2)

\* variant: the backtracking stops before it records the origin
dtw_dropOrigin(x, y) ==
    LET cm == DtwMatrix(x, y, <<>>)
        path == DtwBacktrack(cm, Len(x), Len(y), <<>>, <<>>)
    IN  [distance |-> cm[Len(x)][Len(y)][1],
         index1 |-> Tail(path.index1),
         index2 |-> Tail(path.index2)]

\* the alignment object: the cumulative cost of the last cell and the path
DtwAlign(x, y) ==
    LET cm == DtwMatrix(x, y, <<>>)
        path == DtwBacktrack(cm, Len(x), Len(y), <<>>, <<>>)
    IN  [distance |-> cm[Len(x)][Len(y)][1],
         index1 |-> path.index1,
         index2 |-> path.index2]

\* dtw(x, y): the two arguments are evaluated once, then aligned
dtw(x, y) == CHOOSE r \in {DtwAlign(p[1], p[2]) : p \in {<<x, y>>}} : TRUE

NoAlignment == [distance |-> -1, index1 |-> <<>>, index2 |-> <<>>]

\* norm1[idx1]: the elements of s at the 0-based indices idx
Aligned(s, idx) == [k \in 1..Len(idx) |-> s[idx[k] + 1]]

RECURSIVE SumProd(_, _)
SumProd(a, b) ==
    IF a = <<>> THEN 0 ELSE Head(a) * Head(b) + SumProd(Tail(a), Tail(b))

\* scipy.stats.pearsonr(a, b)[0] in fixed point, clipped to [-1, 1] as scipy
\* does; nan when an input is constant
Pearson(a, b) ==
    LET n == Len(a)
        cov == n * SumProd(a, b) - SumSeq(a) * SumSeq(b)
        Va == VarN2(a)
        Vb == VarN2(b)
    IN  IF Va = 0 \/ Vb = 0 THEN [nan |-> TRUE, r |-> 0]
        ELSE LET sa == ISqrt(Va * Scale * Scale)
                 sb == ISqrt(Vb * Scale * Scale)
                 r == Quot(Quot(cov * Scale * Scale, sa) * Scale, sb)
             IN  [nan |-> FALSE, r |-> Max2(-Scale, Min2(Scale, r))]

\* critical |r| (in thousandths, rounded up) of the two-sided test at the
\* 0.05 level for n = 3, 4, ... samples: pearsonr's p-value is at most 0.05
\* exactly when |r| reaches it
RCritTable ==
    <<997, 950, 879, 812, 755, 707, 667, 632, 603, 576, 553, 533, 514, 498,
      483, 469, 456, 444, 433, 423, 414, 405, 397, 389, 381, 374, 368, 362>>

\* p <= 0.05 for the coefficient r (fixed point) over n samples; with two
\* samples scipy reports p = 1
Significant(r, n) ==
    /\ n >= 3
    /\ Abs(r) * 1000 >= RCritTable[n - 2] * Scale

---------------------------------------------------------------------------
(* ultra_strict_comparison.py: correlation and the policy *)

\* the alignment interval_sequence_correlation computes, if it gets that far
UltraStrict_correlation_alignment(intervals1, intervals2) ==
    IF Len(intervals1) < 5 \/ Len(intervals2) < 5 THEN NoAlignment
    ELSE dtw(normalize_sequence(intervals1), normalize_sequence(intervals2))

\* interval_sequence_correlation.  Pearson's r is unchanged by the positive
\* affine map of normalize_sequence, so it is taken over the aligned intervals.
interval_sequence_correlation(intervals1, intervals2) ==
    IF Len(intervals1) < 5 \/ Len(intervals2) < 5 THEN 0
    ELSE LET al == UltraStrict_correlation_alignment(intervals1, intervals2)
             aligned1 == Aligned(intervals1, al.index1)
             aligned2 == Aligned(intervals2, al.index2)
             p == Pearson(aligned1, aligned2)
             corr == IF Len(aligned1) > 1
                     THEN IF p.nan \/ ~Significant(p.r, Len(aligned1)) THEN 0 ELSE p.r
                     ELSE 0
         IN  IF 2 * corr < Scale THEN 0
             ELSE (2 * corr - Scale) * 100

UltraStrictGate == 3

\* the component scores of UltraStrictMelodyScore
UltraStrictComponents(ref, test) ==
    LET ref_intervals == extract_intervals(ref)
        test_intervals == extract_intervals(test)
        ref_contour == extract_contour(ref_intervals)
        test_contour == extract_contour(test_intervals)
    IN  [lcs_score |-> longest_common_subsequence(ref_intervals, test_intervals, 1),
         correlation_score |-> interval_sequence_correlation(ref_intervals, test_intervals),
         pattern_score |-> exact_pattern_match(ref_contour, test_contour, 2),
         motif_score |-> melodic_motif_similarity(ref_intervals, test_intervals),
         pc_score |-> pitch_class_overlap(ref, test)]

\* variant: the LCS weight of the docstring (0.30) with the other weights of
\* the code
UltraStrictWeighted_docWeight(c) ==
    (30 * c.lcs_score + 15 * c.correlation_score + 15 * c.pattern_score
       + 30 * c.motif_score + 15 * c.pc_score) \div 100

UltraStrictWeighted(c) ==
    (25 * c.lcs_score + 15 * c.correlation_score + 15 * c.pattern_score
       + 30 * c.motif_score + 15 * c.pc_score) \div 100

\* variant: the penalty is length_ratio - 0.5, without the division by 0.5
UltraStrictLengthPenalty_undivided(score, len_ref, len_test) ==
    LET lo == Min2(len_ref, len_test)
        hi == Max2(len_ref, len_test)
        length_penalty == 2 * lo - hi
    IN  IF 2 * lo < hi
        THEN (score * (2 * hi + length_penalty)) \div (2 * hi)
        ELSE score

\* with length_ratio = lo / hi below 0.5, length_penalty is
\* (length_ratio - 0.5) / 0.5, here the fraction (2 * lo - hi) / hi, and the
\* score is multiplied by 1 + length_penalty
UltraStrictLengthPenalty(score, len_ref, len_test) ==
    LET lo == Min2(len_ref, len_test)
        hi == Max2(len_ref, len_test)
        length_penalty == 2 * lo - hi
    IN  IF 2 * lo < hi
        THEN (score * (hi + length_penalty)) \div hi
        ELSE score

\* variant: a zero correlation score counts as well
critical_zeros_withCorrelation(c) ==
    Cardinality({k \in {"lcs_score", "correlation_score", "pattern_score",
                        "motif_score", "pc_score"} :
                    c[k] = 0})

critical_zeros(c) ==
    Cardinality({k \in {"lcs_score", "pattern_score", "motif_score", "pc_score"} :
                    c[k] = 0})

UltraStrictZeroPenalty(score, c) ==
    IF critical_zeros(c) > 1
    THEN (score * (10 - critical_zeros(c))) \div 10
    ELSE score

UltraStrictFinal(ref, test, c) ==
    UltraStrictZeroPenalty(
        UltraStrictLengthPenalty(UltraStrictWeighted(c), Len(ref), Len(test)), c)

---------------------------------------------------------------------------
(* strict_comparison.py *)

\* number of positions where the pattern equals the window at 0-based offset i
WindowEqual(pattern, target, i) ==
    Cardinality({k \in 1..Len(pattern) : pattern[k] = target[i + k]})

\* number of positions within one semitone at 0-based offset i
WindowNear(pattern, target, i) ==
    Cardinality({k \in 1..Len(pattern) : Abs(pattern[k] - target[i + k]) <= 1})

\* the running maximum of a loop that starts from 0 is SetMax({0} \cup S)
SetMax(S) == CHOOSE x \in S : \A y \in S : y <= x

\* "use shorter sequence as pattern": the first one when the lengths are equal
Strict_pattern(seq1, seq2) == IF Len(seq1) <= Len(seq2) THEN seq1 ELSE seq2

Strict_target(seq1, seq2) == IF Len(seq1) <= Len(seq2) THEN seq2 ELSE seq1

\* variant: range(target_len - pattern_len), without the last offset
Strict_offsets_exclusive(seq1, seq2) ==
    0..(Len(Strict_target(seq1, seq2)) - Len(Strict_pattern(seq1, seq2)) - 1)

\* range(target_len - pattern_len + 1): the offsets the pattern slides over
Strict_offsets(seq1, seq2) ==
    0..(Len(Strict_target(seq1, seq2)) - Len(Strict_pattern(seq1, seq2)))

\* variant: the first sequence is always the pattern
exact_contour_match_firstAsPattern(contour1, contour2) ==
    IF Len(contour1) = 0 \/ Len(contour2) = 0 THEN 0
    ELSE IF Len(contour1) > Len(contour2)
         THEN LET dist == dtw(contour1, contour2).distance
                  max_possible == Max2(Len(contour1), Len(contour2)) * 2
              IN  Max2(0, Hundred - Pct(dist, max_possible))
         ELSE Pct(SetMax({WindowEqual(contour1, contour2, i) :
                             i \in 0..(Len(contour2) - Len(contour1))}),
                  Len(contour1))

exact_contour_match(contour1, contour2) ==
    IF Len(contour1) = 0 \/ Len(contour2) = 0 THEN 0
    ELSE LET pattern == Strict_pattern(contour1, contour2)
             target == Strict_target(contour1, contour2)
             pattern_len == Len(pattern)
             target_len == Len(target)
         IN  IF pattern_len > target_len
             THEN LET dist == dtw(contour1, contour2).distance
                      max_possible == Max2(Len(contour1), Len(contour2)) * 2
                  IN  Max2(0, Hundred - Pct(dist, max_possible))
             ELSE Pct(SetMax({0} \cup {WindowEqual(pattern, target, i) :
                                           i \in Strict_offsets(contour1, contour2)}),
                      pattern_len)

\* the alignment exact_contour_match computes: only in the branch taken
\* when the pattern is longer than the target
Strict_contour_alignment(contour1, contour2) ==
    IF Len(contour1) = 0 \/ Len(contour2) = 0 THEN NoAlignment
    ELSE IF Len(Strict_pattern(contour1, contour2)) > Len(Strict_target(contour1, contour2))
    THEN dtw(contour1, contour2)
    ELSE NoAlignment

Strict_correlation_alignment(intervals1, intervals2) ==
    IF Len(intervals1) < 3 \/ Len(intervals2) < 3 THEN NoAlignment
    ELSE dtw(normalize_sequence(intervals1), normalize_sequence(intervals2))

\* interval_correlation of strict_comparison.py
Strict_interval_correlation(intervals1, intervals2) ==
    IF Len(intervals1) < 3 \/ Len(intervals2) < 3 THEN 0
    ELSE LET al == Strict_correlation_alignment(intervals1, intervals2)
             aligned1 == Aligned(intervals1, al.index1)
             aligned2 == Aligned(intervals2, al.index2)
             p == Pearson(aligned1, aligned2)
             corr == IF Len(aligned1) > 1
                     THEN IF p.nan THEN 0 ELSE p.r
                     ELSE 0
         IN  Max2(0, corr) * 100

exact_interval_match(intervals1, intervals2) ==
    IF Len(intervals1) = 0 \/ Len(intervals2) = 0 THEN 0
    ELSE LET pattern == Strict_pattern(intervals1, intervals2)
             target == Strict_target(intervals1, intervals2)
             pattern_len == Len(pattern)
             target_len == Len(target)
         IN  IF pattern_len > target_len THEN 0
             ELSE Pct(SetMax({0} \cup {WindowNear(pattern, target, i) :
                                           i \in Strict_offsets(intervals1, intervals2)}),
                      pattern_len)

\* hist[note % 12] += 1, as a 12-element sequence indexed by class + 1
Histogram(midi_seq) ==
    [k \in 1..12 |-> Cardinality({i \in 1..Len(midi_seq) : midi_seq[i] % 12 = k - 1})]

\* variant: np.maximum in place of np.minimum
pitch_class_histogram_similarity_max(midi_seq1, midi_seq2) ==
    IF Len(midi_seq1) = 0 \/ Len(midi_seq2) = 0 THEN 0
    ELSE LET n1 == Len(midi_seq1)
             n2 == Len(midi_seq2)
             h1 == Histogram(midi_seq1)
             h2 == Histogram(midi_seq2)
         IN  Pct(SumSeq([k \in 1..12 |-> Max2(h1[k] * n2, h2[k] * n1)]), n1 * n2)

\* histogram intersection of the normalised histograms, times 100
pitch_class_histogram_similarity(midi_seq1, midi_seq2) ==
    IF Len(midi_seq1) = 0 \/ Len(midi_seq2) = 0 THEN 0
    ELSE LET n1 == Len(midi_seq1)
             n2 == Len(midi_seq2)
             h1 == Histogram(midi_seq1)
             h2 == Histogram(midi_seq2)
         IN  Pct(SumSeq([k \in 1..12 |-> Min2(h1[k] * n2, h2[k] * n1)]), n1 * n2)

\* variant: two sequences without range are taken to have the same range
melodic_range_similarity_equalZero(midi_seq1, midi_seq2) ==
    IF Len(midi_seq1) = 0 \/ Len(midi_seq2) = 0 THEN 0
    ELSE LET range1 == SeqMax(midi_seq1) - SeqMin(midi_seq1)
             range2 == SeqMax(midi_seq2) - SeqMin(midi_seq2)
         IN  IF range1 = 0 /\ range2 = 0 THEN Hundred
             ELSE Pct(Min2(range1, range2), Max2(range1, range2))

melodic_range_similarity(midi_seq1, midi_seq2) ==
    IF Len(midi_seq1) = 0 \/ Len(midi_seq2) = 0 THEN 0
    ELSE LET range1 == SeqMax(midi_seq1) - SeqMin(midi_seq1)
             range2 == SeqMax(midi_seq2) - SeqMin(midi_seq2)
         IN  IF range1 = 0 \/ range2 = 0 THEN 0
             ELSE Pct(Min2(range1, range2), Max2(range1, range2))

note_density_similarity(midi_seq1, midi_seq2) ==
    IF Len(midi_seq1) = 0 \/ Len(midi_seq2) = 0 THEN 0
    ELSE Pct(Min2(Len(midi_seq1), Len(midi_seq2)), Max2(Len(midi_seq1), Len(midi_seq2)))

StrictGate == 2

StrictComponents(ref, test) ==
    LET ref_intervals == extract_intervals(ref)
        test_intervals == extract_intervals(test)
        ref_contour == extract_contour(ref_intervals)
        test_contour == extract_contour(test_intervals)
    IN  [contour_score |-> exact_contour_match(ref_contour, test_contour),
         correlation_score |-> Strict_interval_correlation(ref_intervals, test_intervals),
         exact_match_score |-> exact_interval_match(ref_intervals, test_intervals),
         pitch_score |-> pitch_class_histogram_similarity(ref, test),
         range_score |-> melodic_range_similarity(ref, test),
         density_score |-> note_density_similarity(ref, test)]

StrictWeighted(c) ==
    (25 * c.contour_score + 25 * c.correlation_score + 20 * c.exact_match_score
       + 15 * c.pitch_score + 10 * c.range_score + 5 * c.density_score) \div 100

\* variant: the penalty is length_ratio, without the factor 0.5
StrictLengthPenalty_fullRatio(score, len_ref, len_test) ==
    LET lo == Min2(len_ref, len_test)
        hi == Max2(len_ref, len_test)
    IN  IF 2 * lo < hi THEN (score * (hi + 2 * lo)) \div (2 * hi) ELSE score

\* length_ratio < 0.5: multiply by 0.5 + length_ratio * 0.5
StrictLengthPenalty(score, len_ref, len_test) ==
    LET lo == Min2(len_ref, len_test)
        hi == Max2(len_ref, len_test)
    IN  IF 2 * lo < hi THEN (score * (hi + lo)) \div (2 * hi) ELSE score

StrictFinal(ref, test, c) ==
    StrictLengthPenalty(StrictWeighted(c), Len(ref), Len(test))

---------------------------------------------------------------------------
(* improved_comparison.py *)

\* dtw_distance_euclidean: distance / path length; inf (here -1) on empty input
dtw_distance_euclidean(seq1, seq2) ==
    IF Len(seq1) = 0 \/ Len(seq2) = 0 THEN -1
    ELSE LET al == dtw(seq1, seq2)
             path_length == Len(al.index1)
         IN  IF path_length > 0 THEN al.distance \div path_length ELSE -1

\* contour_similarity of improved_comparison.py: DTW over the directions
Improved_contour_similarity(intervals1, intervals2) ==
    IF Len(intervals1) = 0 \/ Len(intervals2) = 0 THEN 0
    ELSE LET dir1 == extract_contour(intervals1)
             dir2 == extract_contour(intervals2)
             dist == dtw(dir1, dir2).distance
             max_possible_dist == Max2(Len(dir1), Len(dir2)) * 2
         IN  Max2(0, Hundred - Pct(dist, max_possible_dist))

\* exp(-x) for 0 <= x <= 1 (fixed point) by its Taylor series
RECURSIVE ExpNegSeries(_, _, _, _)
ExpNegSeries(x, k, term, acc) ==
    IF term = 0 THEN acc
    ELSE LET next == (term * x) \div (k * Scale)
         IN  ExpNegSeries(x, k + 1, next,
                          IF k % 2 = 1 THEN acc - next ELSE acc + next)

\* np.exp(-x) for x >= 0 (fixed point): halve the argument until it is at
\* most 1, then square back
RECURSIVE ExpNeg(_)
ExpNeg(x) ==
    IF x > Scale
    THEN LET h == ExpNeg(x \div 2) IN (h * h) \div Scale
    ELSE ExpNegSeries(x, 1, Scale, Scale)

interval_pattern_similarity(intervals1, intervals2) ==
    IF Len(intervals1) = 0 \/ Len(intervals2) = 0 THEN 0
    ELSE LET dist == dtw_distance_euclidean(normalize_sequence(intervals1),
                                            normalize_sequence(intervals2))
         IN  Max2(0, 100 * ExpNeg(dist \div 2))

rhythm_similarity(midi_seq1, midi_seq2) ==
    IF Len(midi_seq1) = 0 \/ Len(midi_seq2) = 0 THEN 0
    ELSE Pct(Min2(Len(midi_seq1), Len(midi_seq2)), Max2(Len(midi_seq1), Len(midi_seq2)))

\* pitch_class_similarity: Pearson's r of the two normalised histograms (r is
\* unchanged by the division by the length), rescaled (r + 1) / 2 * 100
pitch_class_similarity(midi_seq1, midi_seq2) ==
    IF Len(midi_seq1) = 0 \/ Len(midi_seq2) = 0 THEN 0
    ELSE LET p == Pearson(Histogram(midi_seq1), Histogram(midi_seq2))
             correlation == IF p.nan THEN 0 ELSE p.r
         IN  ((correlation + Scale) * 100) \div 2

ImprovedGate == 2

ImprovedComponents(ref, test) ==
    LET ref_intervals == extract_intervals(ref)
        test_intervals == extract_intervals(test)
    IN  [contour_score |-> Improved_contour_similarity(ref_intervals, test_intervals),
         interval_score |-> interval_pattern_similarity(ref_intervals, test_intervals),
         pitch_score |-> pitch_class_similarity(ref, test),
         rhythm_score |-> rhythm_similarity(ref, test)]

ImprovedFinal(ref, test, c) ==
    (30 * c.contour_score + 30 * c.interval_score + 20 * c.pitch_score
       + 20 * c.rhythm_score) \div 100

---------------------------------------------------------------------------
(* sequential_comparison.py *)

\* the four pieces of the curve of dtw_similarity on the normalised
\* distance d: 100 - (d / 0.45) * 15
SequentialCurve1(d) == Hundred - (d * 1500) \div 45

\* variant: the second piece starts from 0.40, the distance the comment
\* above the curve gives the score 100
SequentialCurve2_from040(d) == 85 * Scale - ((100 * d - 40 * Scale) * 45) \div 10

\* 85 - ((d - 0.45) / 0.10) * 45
SequentialCurve2(d) == 85 * Scale - ((100 * d - 45 * Scale) * 45) \div 10

\* 40 - ((d - 0.55) / 0.15) * 30
SequentialCurve3(d) == 40 * Scale - ((100 * d - 55 * Scale) * 30) \div 15

\* max(0, 10 - (d - 0.70) * 20)
SequentialCurve4(d) == Max2(0, 10 * Scale - ((100 * d - 70 * Scale) * 20) \div 100)

\* the piecewise curve of dtw_similarity on the normalised distance d
SequentialCurve(d) ==
    IF 100 * d < 45 * Scale THEN SequentialCurve1(d)
    ELSE IF 100 * d < 55 * Scale THEN SequentialCurve2(d)
    ELSE IF 100 * d < 70 * Scale THEN SequentialCurve3(d)
    ELSE SequentialCurve4(d)

\* dtw_similarity: the scalar 0.0 on short input, otherwise the pair
\* (score, normalized_distance)
dtw_similarity(seq1, seq2) ==
    IF Len(seq1) < 2 \/ Len(seq2) < 2 THEN [scalar |-> TRUE, score |-> 0, dist |-> 0]
    ELSE LET distance == dtw(normalize_sequence(seq1), normalize_sequence(seq2)).distance
             normalized_distance == (2 * distance) \div (Len(seq1) + Len(seq2))
         IN  [scalar |-> FALSE,
              score |-> SequentialCurve(normalized_distance),
              dist |-> normalized_distance]

\* "score, dist = dtw_similarity(...)": unpacking the scalar 0.0 into two
\* names raises a TypeError
UnpackRaises(result) == result.scalar

Sequential_correlation_alignment(intervals1, intervals2) ==
    IF Len(intervals1) < 10 \/ Len(intervals2) < 10 THEN NoAlignment
    ELSE dtw(intervals1, intervals2)

\* variant: the length gate is off by one (<= 10)
Sequential_interval_correlation_offByOne(intervals1, intervals2) ==
    IF Len(intervals1) <= 10 \/ Len(intervals2) <= 10 THEN 0
    ELSE LET al == dtw(intervals1, intervals2)
             aligned1 == Aligned(intervals1, al.index1)
             aligned2 == Aligned(intervals2, al.index2)
             p == Pearson(aligned1, aligned2)
         IN  IF p.nan \/ ~Significant(p.r, Len(aligned1)) THEN 0
             ELSE IF 2 * p.r > Scale THEN (2 * p.r - Scale) * 100
             ELSE IF 10 * p.r > 3 * Scale THEN ((10 * p.r - 3 * Scale) * 30) \div 2
             ELSE 0

\* the end of interval_correlation: the score of the coefficient corr of
\* n aligned samples
CorrelationScore(corr, n) ==
    IF n < 10 THEN 0
    ELSE IF ~Significant(corr, n) THEN 0
    ELSE IF 2 * corr > Scale THEN (2 * corr - Scale) * 100
    ELSE IF 10 * corr > 3 * Scale THEN ((10 * corr - 3 * Scale) * 30) \div 2
    ELSE 0

\* interval_correlation of sequential_comparison.py
Sequential_interval_correlation(intervals1, intervals2) ==
    IF Len(intervals1) < 10 \/ Len(intervals2) < 10 THEN 0
    ELSE LET al == Sequential_correlation_alignment(intervals1, intervals2)
             aligned1 == Aligned(intervals1, al.index1)
             aligned2 == Aligned(intervals2, al.index2)
             p == Pearson(aligned1, aligned2)
         IN  IF Len(aligned1) < 10 THEN 0
             ELSE IF p.nan THEN 0
             ELSE CorrelationScore(p.r, Len(aligned1))

\* contour_similarity of sequential_comparison.py, on the pitch sequences
Sequential_contour_similarity(seq1, seq2) ==
    IF Len(seq1) < 2 \/ Len(seq2) < 2 THEN 0
    ELSE LET contour1 == extract_contour(extract_intervals(seq1))
             contour2 == extract_contour(extract_intervals(seq2))
             distance == dtw(contour1, contour2).distance
             d == (2 * distance * Scale) \div (Len(contour1) + Len(contour2))
         IN  IF 10 * d < 2 * Scale THEN Hundred
             ELSE IF 10 * d < 5 * Scale
             THEN Hundred - ((10 * d - 2 * Scale) * 70) \div 3
             ELSE Max2(0, 30 * Scale - ((10 * d - 5 * Scale) * 30) \div 10)

pitch_range_similarity(seq1, seq2) ==
    IF Len(seq1) = 0 \/ Len(seq2) = 0 THEN 0
    ELSE LET range1 == SeqMax(seq1) - SeqMin(seq1)
             range2 == SeqMax(seq2) - SeqMin(seq2)
         IN  IF range1 = 0 \/ range2 = 0 THEN 0
             ELSE Pct(Min2(range1, range2), Max2(range1, range2))

\* variant: the gate of StrictMelodyScore, two notes
SequentialGate_asStrict == StrictGate

SequentialGate == 10

SequentialComponents(ref, test) ==
    LET ref_intervals == extract_intervals(ref)
        test_intervals == extract_intervals(test)
    IN  [pitch_score |-> dtw_similarity(ref, test).score,
         interval_score |-> dtw_similarity(ref_intervals, test_intervals).score,
         corr_score |-> Sequential_interval_correlation(ref_intervals, test_intervals),
         contour_score |-> Sequential_contour_similarity(ref, test),
         range_score |-> pitch_range_similarity(ref, test)]

\* variant: the weights of the comments beside the component calls (40%,
\* 30%, 20%, 10%, 5%)
SequentialFinal_commentWeights(ref, test, c) ==
    (40 * c.pitch_score + 30 * c.interval_score + 20 * c.corr_score
       + 10 * c.contour_score + 5 * c.range_score) \div 100

\* the weighted combination of SequentialMelodyScore, which is what it returns
SequentialFinal(ref, test, c) ==
    (25 * c.pitch_score + 50 * c.interval_score + 15 * c.corr_score
       + 5 * c.contour_score + 5 * c.range_score) \div 100

---------------------------------------------------------------------------
(* Inputs *)

\* the pitches of the exhaustively enumerated sequences
Pitches == 60..62

ShortSeqs == UNION {[1..n -> Pitches] : n \in 0..MaxLen}

\* longer melodies: a scale fragment up and down, the same with two more
\* notes, and an eleven-note melody on C and D only
Melodies ==
    {<<60, 62, 64, 65, 67, 65, 64, 62, 60>>,
     <<60, 62, 64, 65, 67, 65, 64, 62, 60, 62, 64>>,
     <<60, 62, 60, 62, 62, 60, 62, 60, 60, 62, 60>>}

Transpose(seq, k) == [i \in 1..Len(seq) |-> seq[i] + k]

Shifts == (1..MaxShift) \cup {12}

\* the values of the sequences handed directly to a metric
MetricVals == 0..2

MetricExamples ==
    {<<2, 2, 1, 2, 2, 2, 1>>,
     <<2, 2, 1, 2, 3, 2, 1>>,
     <<2, 2, 1, 2, -2, -1, -2, -2, 2, 2>>,
     <<2, 1, 2, 2, -2, -2, -1, -2, 2, 1, 2>>}

MetricSeqs == UNION {[1..n -> MetricVals] : n \in 0..MaxLen} \cup MetricExamples

NoScores == [k \in {} |-> 0]

NoScore == -1

\* no reference file has been written
NoFile == <<>>

\* the result of reading a reference file: a sequence, or a ValueError
NotParsed == [raised |-> FALSE, value |-> <<>>]

\* the runs of compare_melodies a GUI may start, by the click that starts them
Workers == 1..MaxClicks

\* a run of compare_melodies that has not been started: where it is, which
\* stage of the try block it is in, and how it left the try block
NotStarted == [at |-> "none", stage |-> 0, how |-> "none"]

\* a run that has left the try block for the except or the finally block
Left(block, why) == [at |-> block, stage |-> 0, how |-> why]

\* no GUI has been constructed
NoApp ==
    /\ app = "none"
    /\ compare_btn = "disabled"
    /\ reference_file = FALSE
    /\ test_file = FALSE
    /\ worker = [w \in Workers |-> NotStarted]

---------------------------------------------------------------------------
(* State machine: one call of a score function on the loaded sequences *)

\* nothing has been called
Fresh ==
    /\ pc = "loaded"
    /\ callee = "none"
    /\ scores = NoScores
    /\ final_score = NoScore
    /\ alignment = NoAlignment
    /\ tolerance = 0
    /\ weighted = NoScore
    /\ max_gap = 0
    /\ ref_txt = NoFile
    /\ parsed = NotParsed
    /\ norm1 = <<>>

Loaded ==
    /\ Fresh
    /\ dtw_dist = NoScore
    /\ pearson_r = 0
    /\ aligned_n = 0
    /\ NoApp

Init ==
    /\ ref_sqnc \in ShortSeqs \cup Melodies
    /\ test_sqnc \in ShortSeqs \cup Melodies \cup {Transpose(ref_sqnc, k) : k \in Shifts}
    /\ Loaded

\* the state after name returned value, having computed the components c
\* and the correlation alignment al
Return(name, c, value, al) ==
    /\ pc = "loaded"
    /\ pc' = "returned"
    /\ callee' = name
    /\ scores' = c
    /\ final_score' = value
    /\ alignment' = al
    /\ UNCHANGED <<ref_sqnc, test_sqnc, ref_txt, parsed, norm1, curve_vars, gui_vars>>

\* the state after name raised an exception
Raise(name) ==
    /\ pc = "loaded"
    /\ pc' = "raised"
    /\ callee' = name
    /\ UNCHANGED <<ref_sqnc, test_sqnc, scores, final_score, alignment, ref_txt, parsed,
                   norm1, curve_vars, gui_vars>>

\* variant: only the reference length is gated
TooShort_refOnly(gate) == Len(ref_sqnc) < gate

TooShort(gate) == Len(ref_sqnc) < gate \/ Len(test_sqnc) < gate

ImprovedMelodyScore ==
    /\ UNCHANGED <<tolerance, max_gap>>
    /\ IF TooShort(ImprovedGate)
       THEN /\ Return("ImprovedMelodyScore", NoScores, 0, NoAlignment)
            /\ UNCHANGED weighted
       ELSE LET c == ImprovedComponents(ref_sqnc, test_sqnc)
            IN  /\ Return("ImprovedMelodyScore", c,
                          ImprovedFinal(ref_sqnc, test_sqnc, c), NoAlignment)
                /\ weighted' = ImprovedFinal(ref_sqnc, test_sqnc, c)

SequentialMelodyScore ==
    /\ UNCHANGED <<tolerance, max_gap>>
    /\ IF TooShort(SequentialGate)
       THEN /\ Return("SequentialMelodyScore", NoScores, 0, NoAlignment)
            /\ UNCHANGED weighted
       ELSE IF \/ UnpackRaises(dtw_similarity(ref_sqnc, test_sqnc))
               \/ UnpackRaises(dtw_similarity(extract_intervals(ref_sqnc),
                                              extract_intervals(test_sqnc)))
       THEN /\ Raise("SequentialMelodyScore")
            /\ UNCHANGED weighted
       ELSE LET c == SequentialComponents(ref_sqnc, test_sqnc)
            IN  /\ Return("SequentialMelodyScore", c,
                          SequentialFinal(ref_sqnc, test_sqnc, c),
                          Sequential_correlation_alignment(extract_intervals(ref_sqnc),
                                                           extract_intervals(test_sqnc)))
                /\ weighted' = SequentialFinal(ref_sqnc, test_sqnc, c)

StrictMelodyScore ==
    /\ UNCHANGED <<tolerance, max_gap>>
    /\ IF TooShort(StrictGate)
       THEN /\ Return("StrictMelodyScore", NoScores, 0, NoAlignment)
            /\ UNCHANGED weighted
       ELSE LET c == StrictComponents(ref_sqnc, test_sqnc)
            IN  /\ Return("StrictMelodyScore", c,
                          StrictFinal(ref_sqnc, test_sqnc, c),
                          Strict_correlation_alignment(extract_intervals(ref_sqnc),
                                                       extract_intervals(test_sqnc)))
                /\ weighted' = StrictWeighted(c)

UltraStrictMelodyScore ==
    /\ tolerance' = 1
    /\ max_gap' = 2
    /\ IF TooShort(UltraStrictGate)
       THEN /\ Return("UltraStrictMelodyScore", NoScores, 0, NoAlignment)
            /\ UNCHANGED weighted
       ELSE LET c == UltraStrictComponents(ref_sqnc, test_sqnc)
            IN  /\ Return("UltraStrictMelodyScore", c,
                          UltraStrictFinal(ref_sqnc, test_sqnc, c),
                          UltraStrict_correlation_alignment(extract_intervals(ref_sqnc),
                                                            extract_intervals(test_sqnc)))
                /\ weighted' = UltraStrictWeighted(c)

Next ==
    \/ ImprovedMelodyScore
    \/ SequentialMelodyScore
    \/ StrictMelodyScore
    \/ UltraStrictMelodyScore

Spec == Init /\ [][Next]_vars

---------------------------------------------------------------------------
(* State machine: one direct call of a metric on two integer sequences *)

MetricInit ==
    /\ ref_sqnc \in MetricSeqs
    /\ test_sqnc \in MetricSeqs
    /\ Loaded

Call_longest_common_subsequence ==
    \E tol \in 0..MaxTol :
        /\ tolerance' = tol
        /\ UNCHANGED <<weighted, max_gap>>
        /\ Return("longest_common_subsequence", NoScores,
                  longest_common_subsequence(ref_sqnc, test_sqnc, tol), NoAlignment)

Call_pitch_class_overlap ==
    /\ UNCHANGED <<tolerance, weighted, max_gap>>
    /\ Return("pitch_class_overlap", NoScores,
              pitch_class_overlap(ref_sqnc, test_sqnc), NoAlignment)

Call_dtw_distance_euclidean ==
    /\ UNCHANGED <<tolerance, weighted, max_gap>>
    /\ Return("dtw_distance_euclidean", NoScores,
              dtw_distance_euclidean(ref_sqnc, test_sqnc),
              IF Len(ref_sqnc) = 0 \/ Len(test_sqnc) = 0 THEN NoAlignment
              ELSE dtw(ref_sqnc, test_sqnc))

Call_Strict_interval_correlation ==
    /\ UNCHANGED <<tolerance, weighted, max_gap>>
    /\ Return("Strict_interval_correlation", NoScores,
              Strict_interval_correlation(ref_sqnc, test_sqnc),
              Strict_correlation_alignment(ref_sqnc, test_sqnc))

Call_interval_sequence_correlation ==
    /\ UNCHANGED <<tolerance, weighted, max_gap>>
    /\ Return("interval_sequence_correlation", NoScores,
              interval_sequence_correlation(ref_sqnc, test_sqnc),
              UltraStrict_correlation_alignment(ref_sqnc, test_sqnc))

Call_Sequential_interval_correlation ==
    /\ UNCHANGED <<tolerance, weighted, max_gap>>
    /\ Return("Sequential_interval_correlation", NoScores,
              Sequential_interval_correlation(ref_sqnc, test_sqnc),
              Sequential_correlation_alignment(ref_sqnc, test_sqnc))

\* the alignment a metric computes unless its length check returns first
AlignmentUnless(returns_first, x, y) ==
    IF returns_first THEN NoAlignment ELSE dtw(x, y)

EitherEmpty == Len(ref_sqnc) = 0 \/ Len(test_sqnc) = 0

EitherBelowTwo == Len(ref_sqnc) < 2 \/ Len(test_sqnc) < 2

Call_Improved_contour_similarity ==
    /\ UNCHANGED <<tolerance, weighted, max_gap>>
    /\ Return("Improved_contour_similarity", NoScores,
              Improved_contour_similarity(ref_sqnc, test_sqnc),
              AlignmentUnless(EitherEmpty, extract_contour(ref_sqnc),
                              extract_contour(test_sqnc)))

Call_interval_pattern_similarity ==
    /\ UNCHANGED <<tolerance, weighted, max_gap>>
    /\ Return("interval_pattern_similarity", NoScores,
              interval_pattern_similarity(ref_sqnc, test_sqnc),
              AlignmentUnless(EitherEmpty, normalize_sequence(ref_sqnc),
                              normalize_sequence(test_sqnc)))

Call_rhythm_similarity ==
    /\ UNCHANGED <<tolerance, weighted, max_gap>>
    /\ Return("rhythm_similarity", NoScores,
              rhythm_similarity(ref_sqnc, test_sqnc),
              NoAlignment)

Call_pitch_class_similarity ==
    /\ UNCHANGED <<tolerance, weighted, max_gap>>
    /\ Return("pitch_class_similarity", NoScores,
              pitch_class_similarity(ref_sqnc, test_sqnc),
              NoAlignment)

Call_dtw_similarity ==
    /\ UNCHANGED <<tolerance, weighted, max_gap>>
    /\ Return("dtw_similarity", NoScores,
              dtw_similarity(ref_sqnc, test_sqnc).score,
              AlignmentUnless(EitherBelowTwo, normalize_sequence(ref_sqnc),
                              normalize_sequence(test_sqnc)))

Call_Sequential_contour_similarity ==
    /\ UNCHANGED <<tolerance, weighted, max_gap>>
    /\ Return("Sequential_contour_similarity", NoScores,
              Sequential_contour_similarity(ref_sqnc, test_sqnc),
              AlignmentUnless(EitherBelowTwo,
                              extract_contour(extract_intervals(ref_sqnc)),
                              extract_contour(extract_intervals(test_sqnc))))

Call_pitch_range_similarity ==
    /\ UNCHANGED <<tolerance, weighted, max_gap>>
    /\ Return("pitch_range_similarity", NoScores,
              pitch_range_similarity(ref_sqnc, test_sqnc),
              NoAlignment)

Call_exact_contour_match ==
    /\ UNCHANGED <<tolerance, weighted, max_gap>>
    /\ Return("exact_contour_match", NoScores,
              exact_contour_match(ref_sqnc, test_sqnc),
              Strict_contour_alignment(ref_sqnc, test_sqnc))

Call_exact_interval_match ==
    /\ UNCHANGED <<tolerance, weighted, max_gap>>
    /\ Return("exact_interval_match", NoScores,
              exact_interval_match(ref_sqnc, test_sqnc),
              NoAlignment)

Call_pitch_class_histogram_similarity ==
    /\ UNCHANGED <<tolerance, weighted, max_gap>>
    /\ Return("pitch_class_histogram_similarity", NoScores,
              pitch_class_histogram_similarity(ref_sqnc, test_sqnc),
              NoAlignment)

Call_melodic_range_similarity ==
    /\ UNCHANGED <<tolerance, weighted, max_gap>>
    /\ Return("melodic_range_similarity", NoScores,
              melodic_range_similarity(ref_sqnc, test_sqnc),
              NoAlignment)

Call_note_density_similarity ==
    /\ UNCHANGED <<tolerance, weighted, max_gap>>
    /\ Return("note_density_similarity", NoScores,
              note_density_similarity(ref_sqnc, test_sqnc),
              NoAlignment)

Call_melodic_motif_similarity ==
    /\ UNCHANGED <<tolerance, weighted, max_gap>>
    /\ Return("melodic_motif_similarity", NoScores,
              melodic_motif_similarity(ref_sqnc, test_sqnc),
              NoAlignment)

Call_exact_pattern_match ==
    \E g \in 0..MaxGap :
        /\ max_gap' = g
        /\ UNCHANGED <<tolerance, weighted>>
        /\ Return("exact_pattern_match", NoScores,
                  exact_pattern_match(ref_sqnc, test_sqnc, g), NoAlignment)

\* normalize_sequence takes one sequence and returns an array
Call_normalize_sequence ==
    /\ pc = "loaded"
    /\ pc' = "returned"
    /\ callee' = "normalize_sequence"
    /\ norm1' = normalize_sequence(ref_sqnc)
    /\ UNCHANGED <<ref_sqnc, test_sqnc, scores, final_score, alignment, tolerance,
                   weighted, max_gap, ref_txt, parsed, curve_vars, gui_vars>>

MetricNext ==
    \/ Call_longest_common_subsequence
    \/ Call_pitch_class_overlap
    \/ Call_dtw_distance_euclidean
    \/ Call_Strict_interval_correlation
    \/ Call_interval_sequence_correlation
    \/ Call_Sequential_interval_correlation
    \/ Call_Improved_contour_similarity
    \/ Call_interval_pattern_similarity
    \/ Call_rhythm_similarity
    \/ Call_pitch_class_similarity
    \/ Call_dtw_similarity
    \/ Call_Sequential_contour_similarity
    \/ Call_pitch_range_similarity
    \/ Call_exact_contour_match
    \/ Call_exact_interval_match
    \/ Call_pitch_class_histogram_similarity
    \/ Call_melodic_range_similarity
    \/ Call_note_density_similarity
    \/ Call_melodic_motif_similarity
    \/ Call_exact_pattern_match
    \/ Call_normalize_sequence

SpecMetric == MetricInit /\ [][MetricNext]_vars

---------------------------------------------------------------------------
(* The reference file: written by the GUIs, read by the policies.  A text  *)
(* is a sequence of one-character strings.                                 *)

Digits == <<"0", "1", "2", "3", "4", "5", "6", "7", "8", "9">>

Whitespace == {" ", "\n", "\t", "\r"}

\* str(n) of an int
RECURSIVE str(_)
str(n) ==
    IF n < 0 THEN <<"-">> \o str(-n)
    ELSE IF n < 10 THEN <<Digits[n + 1]>>
    ELSE str(n \div 10) \o <<Digits[(n % 10) + 1]>>

\* ','.join(tokens)
RECURSIVE join(_)
join(tokens) ==
    IF tokens = <<>> THEN <<>>
    ELSE IF Len(tokens) = 1 THEN tokens[1]
    ELSE tokens[1] \o <<",">> \o join(Tail(tokens))

\* variant: the line ends with the newline only, without the trailing comma
reference_line_noTrailingComma(sqnc) ==
    join([i \in 1..Len(sqnc) |-> str(sqnc[i])]) \o <<"\n">>

\* ','.join(map(str, ref_sqnc)) + ',\n'
reference_line(sqnc) ==
    join([i \in 1..Len(sqnc) |-> str(sqnc[i])]) \o <<",", "\n">>

\* f.readline(): up to and including the first newline
RECURSIVE readline(_)
readline(txt) ==
    IF txt = <<>> THEN <<>>
    ELSE IF Head(txt) = "\n" THEN <<"\n">>
    ELSE <<Head(txt)>> \o readline(Tail(txt))

\* line[0:-2]
SliceOffLastTwo(line) == SubSeq(line, 1, Len(line) - 2)

\* s.split(','): the tokens between the commas, at least one
RECURSIVE split(_, _, _)
split(txt, token, tokens) ==
    IF txt = <<>> THEN Append(tokens, token)
    ELSE IF Head(txt) = ","
    THEN split(Tail(txt), <<>>, Append(tokens, token))
    ELSE split(Tail(txt), Append(token, Head(txt)), tokens)

RECURSIVE lstrip(_, _)
lstrip(txt, chars) ==
    IF txt # <<>> /\ Head(txt) \in chars THEN lstrip(Tail(txt), chars) ELSE txt

RECURSIVE rstrip(_, _)
rstrip(txt, chars) ==
    IF txt # <<>> /\ txt[Len(txt)] \in chars
    THEN rstrip(SubSeq(txt, 1, Len(txt) - 1), chars)
    ELSE txt

\* s.strip()
strip(txt) == rstrip(lstrip(txt, Whitespace), Whitespace)

\* the digits of a token after its surrounding whitespace and its sign
Unsigned(token) ==
    LET t == strip(token)
    IN  IF t # <<>> /\ Head(t) \in {"-", "+"} THEN Tail(t) ELSE t

DigitValue(c) == CHOOSE d \in 0..9 : Digits[d + 1] = c

RECURSIVE DigitsValue(_, _)
DigitsValue(ds, acc) ==
    IF ds = <<>> THEN acc
    ELSE DigitsValue(Tail(ds), 10 * acc + DigitValue(Head(ds)))

\* int(token) raises ValueError
IntRaises(token) ==
    \/ Unsigned(token) = <<>>
    \/ \E k \in 1..Len(Unsigned(token)) :
           \A d \in 1..10 : Unsigned(token)[k] # Digits[d]

\* int(token)
int(token) ==
    LET t == strip(token)
        v == DigitsValue(Unsigned(token), 0)
    IN  IF Head(t) = "-" THEN -v ELSE v

\* [int(x) for x in tokens], or the ValueError of the first bad token
IntList(tokens) ==
    IF \E k \in 1..Len(tokens) : IntRaises(tokens[k])
    THEN [raised |-> TRUE, value |-> <<>>]
    ELSE [raised |-> FALSE, value |-> [k \in 1..Len(tokens) |-> int(tokens[k])]]

NonEmptyToken(x) == x # <<>>

NonBlankToken(x) == strip(x) # <<>>

\* the parser of ImprovedMelodyScore, StrictMelodyScore and
\* UltraStrictMelodyScore:
\*   ref_sqnc = ((f.readline())[0:-2]).split(',')
\*   ref_sqnc = [int(x) for x in ref_sqnc if x]
ParseSlice(txt) ==
    IntList(SelectSeq(split(SliceOffLastTwo(readline(txt)), <<>>, <<>>),
                      NonEmptyToken))

\* the parser of SequentialMelodyScore:
\*   [int(x) for x in f.read().strip().rstrip(',').split(',') if x.strip()]
ParseStrip(txt) ==
    IntList(SelectSeq(split(rstrip(strip(txt), {","}), <<>>, <<>>),
                      NonBlankToken))

\* the pitch values written to a reference file: one, two and three digits
FileVals == {0, 7, 60, 127}

FileSeqs == UNION {[1..n -> FileVals] : n \in 0..MaxLen}

GUIs ==
    {"compare_melodies", "melody_compare_v2", "melody_compare_simple",
     "melody_compare_stems"}

SliceParsers == {"ImprovedMelodyScore", "StrictMelodyScore", "UltraStrictMelodyScore"}

FileInit ==
    /\ ref_sqnc \in FileSeqs
    /\ test_sqnc = <<>>
    /\ Loaded

\* a GUI's compare_melodies writes the reference sequence to its text file
WriteReference ==
    \E gui \in GUIs :
        /\ pc = "loaded"
        /\ pc' = "written"
        /\ callee' = gui
        /\ ref_txt' = reference_line(ref_sqnc)
        /\ UNCHANGED <<ref_sqnc, test_sqnc, scores, final_score, alignment,
                       tolerance, weighted, max_gap, parsed, norm1, curve_vars, gui_vars>>

\* a policy with the slicing parser reads the file
ReadReferenceSlice ==
    \E name \in SliceParsers :
        /\ pc = "written"
        /\ pc' = "parsed"
        /\ callee' = name
        /\ parsed' = ParseSlice(ref_txt)
        /\ UNCHANGED <<ref_sqnc, test_sqnc, scores, final_score, alignment,
                       tolerance, weighted, max_gap, ref_txt, norm1, curve_vars, gui_vars>>

\* SequentialMelodyScore reads the file
ReadReferenceStrip ==
    /\ pc = "written"
    /\ pc' = "parsed"
    /\ callee' = "SequentialMelodyScore"
    /\ parsed' = ParseStrip(ref_txt)
    /\ UNCHANGED <<ref_sqnc, test_sqnc, scores, final_score, alignment,
                   tolerance, weighted, max_gap, ref_txt, norm1, curve_vars, gui_vars>>

FileNext ==
    \/ WriteReference
    \/ ReadReferenceSlice
    \/ ReadReferenceStrip

SpecFile == FileInit /\ [][FileNext]_vars

---------------------------------------------------------------------------
(* State machine: the scoring curves at the end of dtw_similarity and of   *)
(* interval_correlation (sequential_comparison.py), applied to a           *)
(* normalised distance or to a correlation coefficient                     *)

\* the numbers of aligned samples of the correlations tried
SampleSizes == {10, 20, 30}

CurveInit ==
    /\ ref_sqnc = <<>>
    /\ test_sqnc = <<>>
    /\ Fresh
    /\ NoApp
    /\ \/ /\ dtw_dist \in 0..MaxDist
          /\ pearson_r = 0
          /\ aligned_n = 0
       \/ /\ dtw_dist = NoScore
          /\ pearson_r \in (-Scale)..Scale
          /\ aligned_n \in SampleSizes

\* the state after the curve of name gave value
CurveReturn(name, value) ==
    /\ pc = "loaded"
    /\ pc' = "returned"
    /\ callee' = name
    /\ final_score' = value
    /\ UNCHANGED <<ref_sqnc, test_sqnc, scores, alignment, tolerance, weighted, max_gap,
                   ref_txt, parsed, norm1, curve_vars, gui_vars>>

\* dtw_similarity from the normalised distance on
Score_dtw_similarity ==
    /\ dtw_dist # NoScore
    /\ CurveReturn("dtw_similarity", SequentialCurve(dtw_dist))

\* interval_correlation from pearsonr's result on
Score_interval_correlation ==
    /\ aligned_n > 0
    /\ CurveReturn("Sequential_interval_correlation", CorrelationScore(pearson_r, aligned_n))

CurveNext ==
    \/ Score_dtw_similarity
    \/ Score_interval_correlation

SpecCurve == CurveInit /\ [][CurveNext]_vars

---------------------------------------------------------------------------
(* State machine: a GUI front-end.  The main thread handles the clicks;    *)
(* every click on the compare button starts one run of compare_melodies,   *)
(* in a thread of its own except in compare_melodies.py, where the button  *)
(* calls it on the main thread.                                            *)

\* the front-ends whose start_comparison starts a thread
ThreadedGUIs == {"melody_compare_v2", "melody_compare_simple", "melody_compare_stems"}

\* the stages of the try block of compare_melodies that call outside the
\* GUI; the last one writes the reference file, scores and shows the result
Stages(gui) ==
    IF gui \in {"melody_compare_simple", "melody_compare_stems"}
    THEN <<"separate_reference", "separate_test", "convert_reference", "convert_test",
           "score">>
    ELSE <<"convert_reference", "convert_test", "score">>

\* "if not <result>: return" follows the stage
ReturnsEarly(gui, name) ==
    \/ name \in {"convert_reference", "convert_test"}
    \/ gui = "melody_compare_stems" /\ name \in {"separate_reference", "separate_test"}

\* a stage can give a result, give None (not the last one) or raise
Outcomes(gui, k) ==
    IF k = Len(Stages(gui)) THEN {"ok", "raised"} ELSE {"ok", "failed", "raised"}

\* variant: a return inside the try block leaves compare_melodies at once
AfterReturn_skipsFinally == "done"

\* where a return inside the try block goes: the finally block
AfterReturn == "finally"

GUIInit ==
    /\ ref_sqnc = <<>>
    /\ test_sqnc = <<>>
    /\ Fresh
    /\ dtw_dist = NoScore
    /\ pearson_r = 0
    /\ aligned_n = 0
    /\ app \in GUIs
    /\ compare_btn = "disabled"
    /\ reference_file = FALSE
    /\ test_file = FALSE
    /\ worker = [w \in Workers |-> NotStarted]

NoCall ==
    UNCHANGED <<ref_sqnc, test_sqnc, pc, callee, scores, final_score, alignment,
                tolerance, weighted, max_gap, ref_txt, parsed, norm1, curve_vars, app>>

\* select_reference with a file chosen, check_ready included
select_reference ==
    /\ reference_file' = TRUE
    /\ compare_btn' = IF test_file THEN "normal" ELSE compare_btn
    /\ UNCHANGED <<test_file, worker>>
    /\ NoCall

\* select_test with a file chosen, check_ready included
select_test ==
    /\ test_file' = TRUE
    /\ compare_btn' = IF reference_file THEN "normal" ELSE compare_btn
    /\ UNCHANGED <<reference_file, worker>>
    /\ NoCall

Running(w) == worker[w].at \notin {"none", "done"}

\* the run w can take a step: a thread always, a call on the main thread
\* when no later call is nested in it
Runnable(w) ==
    \/ app \in ThreadedGUIs
    \/ \A v \in Workers : v > w => ~Running(v)

\* a click on the enabled compare button.  start_comparison starts a thread
\* and returns; in compare_melodies.py the button runs compare_melodies
\* itself, which disables the button before it lets the GUI handle events
start_comparison(w) ==
    /\ compare_btn = "normal"
    /\ worker[w].at = "none"
    /\ \A v \in Workers : v < w => worker[v].at # "none"
    /\ IF app \in ThreadedGUIs
       THEN /\ worker' = [worker EXCEPT ![w].at = "started"]
            /\ UNCHANGED compare_btn
       ELSE /\ worker' = [worker EXCEPT ![w].at = "try", ![w].stage = 1]
            /\ compare_btn' = "disabled"
    /\ UNCHANGED <<reference_file, test_file>>
    /\ NoCall

\* the first statements of compare_melodies in its thread: the button is
\* disabled, unless the label update before it raises
compare_melodies_begin(w) ==
    /\ worker[w].at = "started"
    /\ \/ /\ worker' = [worker EXCEPT ![w].at = "try", ![w].stage = 1]
          /\ compare_btn' = "disabled"
       \/ /\ worker' = [worker EXCEPT ![w].at = "except", ![w].how = "raised"]
          /\ UNCHANGED compare_btn
    /\ UNCHANGED <<reference_file, test_file>>
    /\ NoCall

\* one stage of the try block
compare_melodies_stage(w) ==
    /\ worker[w].at = "try"
    /\ Runnable(w)
    /\ LET k == worker[w].stage
           name == Stages(app)[k]
       IN  \E outcome \in Outcomes(app, k) :
               worker' =
                   IF outcome = "raised"
                   THEN [worker EXCEPT ![w] = Left("except", "raised")]
                   ELSE IF outcome = "failed" /\ ReturnsEarly(app, name)
                   THEN [worker EXCEPT ![w] = Left(AfterReturn, "returned")]
                   ELSE IF k = Len(Stages(app))
                   THEN [worker EXCEPT ![w] = Left("finally", "completed")]
                   ELSE [worker EXCEPT ![w].stage = k + 1]
    /\ UNCHANGED <<compare_btn, reference_file, test_file>>
    /\ NoCall

\* the except block: the error is shown
compare_melodies_except(w) ==
    /\ worker[w].at = "except"
    /\ Runnable(w)
    /\ worker' = [worker EXCEPT ![w].at = "finally"]
    /\ UNCHANGED <<compare_btn, reference_file, test_file>>
    /\ NoCall

\* the finally block: the button is enabled again
compare_melodies_finally(w) ==
    /\ worker[w].at = "finally"
    /\ Runnable(w)
    /\ worker' = [worker EXCEPT ![w].at = "done"]
    /\ compare_btn' = "normal"
    /\ UNCHANGED <<reference_file, test_file>>
    /\ NoCall

compare_melodies(w) ==
    \/ compare_melodies_begin(w)
    \/ compare_melodies_stage(w)
    \/ compare_melodies_except(w)
    \/ compare_melodies_finally(w)

GUINext ==
    \/ select_reference
    \/ select_test
    \/ \E w \in Workers : start_comparison(w)
    \/ \E w \in Workers : compare_melodies(w)

SpecGUI == GUIInit /\ [][GUINext]_vars

\* every started run of compare_melodies keeps being scheduled, and every
\* call it waits for returns
SpecGUIFair == SpecGUI /\ \A w \in Workers : WF_vars(compare_melodies(w))

---------------------------------------------------------------------------
(* Properties of the policies (specification Spec) *)

Policies ==
    {"ImprovedMelodyScore", "SequentialMelodyScore",
     "StrictMelodyScore", "UltraStrictMelodyScore"}

Returned(name) == pc = "returned" /\ callee = name

\* the minimum length gates as the documentation states them
StatedGate ==
    [ImprovedMelodyScore |-> 2, SequentialMelodyScore |-> 10,
     StrictMelodyScore |-> 2, UltraStrictMelodyScore |-> 3]

BelowStatedGate(name) ==
    Len(ref_sqnc) < StatedGate[name] \/ Len(test_sqnc) < StatedGate[name]

NonConstant(seq) == \E i, j \in 1..Len(seq) : seq[i] # seq[j]

\* C1: when either sequence is shorter than the policy's gate (2, 10, 2, 3),
\* the empty sequence included, the policy returns exactly 0 and has
\* computed no component score.
C1_BelowGateReturnsZero ==
    \A name \in Policies :
        (Returned(name) /\ BelowStatedGate(name))
            => (final_score = 0 /\ scores = NoScores /\ alignment = NoAlignment)

C1_Witness ==
    /\ Returned("UltraStrictMelodyScore")
    /\ Len(ref_sqnc) >= 3
    /\ Len(test_sqnc) = 2
    /\ final_score = 0

\* C2: for every policy the returned score, after the weighted combination
\* and the penalties, lies in [0, 100] whenever every component does.
C2_FinalScoreInRange ==
    (/\ pc = "returned"
     /\ callee \in Policies
     /\ \A k \in DOMAIN scores : scores[k] >= 0 /\ scores[k] <= Hundred)
        => (final_score >= 0 /\ final_score <= Hundred)

\* a penalised UltraStrict score: lengths 3 against 9 or 11, two critical
\* components at zero
C2_Witness ==
    /\ Returned("UltraStrictMelodyScore")
    /\ 2 * Len(ref_sqnc) < Len(test_sqnc)
    /\ scores # NoScores
    /\ critical_zeros(scores) > 1
    /\ final_score > 0

WithinRounding(v, target) == Abs(v - target) <= Scale \div 100

\* C3 as stated: every sequence at least as long as the policy's gate and
\* not constant scores 100 against itself, under every policy.
C3_SelfSimilarityAtGate ==
    \A name \in Policies :
        (/\ Returned(name)
         /\ test_sqnc = ref_sqnc
         /\ ~BelowStatedGate(name)
         /\ NonConstant(ref_sqnc))
            => WithinRounding(final_score, Hundred)

UniformHistogram(seq) == \A k \in 1..12 : Histogram(seq)[k] = Histogram(seq)[1]

\* the shortest interval sequence on which the policy's correlation
\* component is computed
CorrelationGate ==
    [SequentialMelodyScore |-> 10, StrictMelodyScore |-> 3, UltraStrictMelodyScore |-> 5]

\* C3 amended: a sequence scores 100 against itself under Improved when it
\* has at least 2 notes and its pitch-class histogram is not uniform, and
\* under Sequential, Strict and UltraStrict when its interval sequence is not
\* constant and has at least 10, 3 and 5 elements respectively.
C3_SelfSimilarity ==
    /\ (/\ Returned("ImprovedMelodyScore")
        /\ test_sqnc = ref_sqnc
        /\ Len(ref_sqnc) >= 2
        /\ ~UniformHistogram(ref_sqnc))
          => WithinRounding(final_score, Hundred)
    /\ \A name \in DOMAIN CorrelationGate :
        (/\ Returned(name)
         /\ test_sqnc = ref_sqnc
         /\ Len(extract_intervals(ref_sqnc)) >= CorrelationGate[name]
         /\ NonConstant(extract_intervals(ref_sqnc)))
            => WithinRounding(final_score, Hundred)

C3_Witness ==
    /\ Returned("SequentialMelodyScore")
    /\ test_sqnc = ref_sqnc
    /\ Len(ref_sqnc) = 11
    /\ NonConstant(extract_intervals(ref_sqnc))
    /\ final_score = Hundred

WhiteKeyClasses == {0, 2, 4, 5, 7, 9, 11}

BlackKeyClasses == {1, 3, 6, 8, 10}

DisjointKeys ==
    /\ PitchClasses(ref_sqnc) \subseteq WhiteKeyClasses
    /\ PitchClasses(test_sqnc) \subseteq BlackKeyClasses

\* C4 as stated: with the reference on white-key classes and the test on
\* black-key classes, both at least as long as the gate, every policy
\* returns less than 30.
C4_DisjointClassesBelow30 ==
    \A name \in Policies :
        (Returned(name) /\ ~BelowStatedGate(name) /\ DisjointKeys)
            => final_score < 30 * Scale

\* C4 amended: with the reference on white-key classes and the test on
\* black-key classes, the pitch-class component is exactly 0 under Strict
\* and UltraStrict and below 50 under Improved, so the returned score is at
\* most 85 under Strict and UltraStrict and below 90 under Improved.
C4_DisjointClassesBound ==
    (pc = "returned" /\ scores # NoScores /\ DisjointKeys) =>
        /\ callee = "StrictMelodyScore"
              => (scores.pitch_score = 0 /\ final_score <= 85 * Scale)
        /\ callee = "UltraStrictMelodyScore"
              => (scores.pc_score = 0 /\ final_score <= 85 * Scale)
        /\ callee = "ImprovedMelodyScore"
              => (scores.pitch_score < 50 * Scale /\ final_score < 90 * Scale)

C4_Witness ==
    /\ Returned("StrictMelodyScore")
    /\ DisjointKeys
    /\ scores # NoScores
    /\ scores.pitch_score = 0
    /\ final_score = 85 * Scale

IsTransposition(ref, test) ==
    /\ Len(test) = Len(ref)
    /\ \E k \in -127..127 : \A i \in 1..Len(ref) : test[i] = ref[i] + k

\* C7: when the test is the reference with one constant added to every
\* pitch (at least 4 notes), Strict's exact contour and exact interval
\* matches and UltraStrict's LCS, contour pattern match and motif similarity
\* are all 100.
C7_TranspositionInvariant ==
    (pc = "returned" /\ Len(ref_sqnc) >= 4 /\ IsTransposition(ref_sqnc, test_sqnc)) =>
        /\ callee = "StrictMelodyScore"
              => (/\ scores.contour_score = Hundred
                  /\ scores.exact_match_score = Hundred)
        /\ callee = "UltraStrictMelodyScore"
              => (/\ scores.lcs_score = Hundred
                  /\ scores.pattern_score = Hundred
                  /\ scores.motif_score = Hundred)

C7_Witness ==
    /\ Returned("UltraStrictMelodyScore")
    /\ Len(ref_sqnc) >= 4
    /\ test_sqnc = Transpose(ref_sqnc, 12)
    /\ scores.lcs_score = Hundred
    /\ scores.pattern_score = Hundred
    /\ scores.motif_score = Hundred

---------------------------------------------------------------------------
(* Properties of the metrics (specification SpecMetric) *)

NonEmptyInputs == Len(ref_sqnc) > 0 /\ Len(test_sqnc) > 0

\* C5: pitch_class_overlap returns exactly 0 for two non-empty sequences
\* whose sets of pitch classes are disjoint.
C5_DisjointOverlapIsZero ==
    (/\ Returned("pitch_class_overlap")
     /\ NonEmptyInputs
     /\ PitchClasses(ref_sqnc) \cap PitchClasses(test_sqnc) = {})
        => final_score = 0

C5_Witness ==
    /\ Returned("pitch_class_overlap")
    /\ PitchClasses(ref_sqnc) = {0, 2}
    /\ PitchClasses(test_sqnc) = {1}
    /\ final_score = 0

RefIntervals == <<2, 2, 1, 2, 2, 2, 1>>

TestIntervals == <<2, 2, 1, 2, 3, 2, 1>>

\* C6: on [2,2,1,2,2,2,1] against [2,2,1,2,3,2,1] the LCS with tolerance 1
\* has length 6 or 7 of 7, and with tolerance 0 it is strictly shorter.
C6_ToleranceSensitivity ==
    (/\ Returned("longest_common_subsequence")
     /\ ref_sqnc = RefIntervals
     /\ test_sqnc = TestIntervals)
        => /\ tolerance = 1 => final_score \in {Pct(6, 7), Pct(7, 7)}
           /\ tolerance = 0 =>
                  final_score < longest_common_subsequence(ref_sqnc, test_sqnc, 1)

C6_Witness ==
    /\ Returned("longest_common_subsequence")
    /\ ref_sqnc = RefIntervals
    /\ test_sqnc = TestIntervals
    /\ tolerance = 0
    /\ final_score = Pct(6, 7)

Indices(idx) == {idx[k] : k \in 1..Len(idx)}

\* the length of the sequence handed to dtw(): the metric's argument, or
\* its contour (one element shorter) in contour_similarity of
\* sequential_comparison.py
DtwInputLen(seq) ==
    IF callee = "Sequential_contour_similarity" THEN Len(seq) - 1 ELSE Len(seq)

\* C9: the alignment path has index lists of equal length, starts at (0,0),
\* ends at (len(A)-1, len(B)-1), and every step raises each index by 0 or 1
\* and at least one of them by 1, so every element of both inputs is aligned.
C9_AlignmentPathValid ==
    (pc = "returned" /\ alignment # NoAlignment) =>
        LET i1 == alignment.index1
            i2 == alignment.index2
        IN  /\ Len(i1) = Len(i2)
            /\ Len(i1) >= 1
            /\ i1[1] = 0 /\ i2[1] = 0
            /\ i1[Len(i1)] = DtwInputLen(ref_sqnc) - 1
            /\ i2[Len(i2)] = DtwInputLen(test_sqnc) - 1
            /\ \A k \in 1..(Len(i1) - 1) :
                   /\ i1[k + 1] - i1[k] \in {0, 1}
                   /\ i2[k + 1] - i2[k] \in {0, 1}
                   /\ (i1[k + 1] - i1[k]) + (i2[k + 1] - i2[k]) >= 1
            /\ Indices(i1) = 0..(DtwInputLen(ref_sqnc) - 1)
            /\ Indices(i2) = 0..(DtwInputLen(test_sqnc) - 1)

\* a correlation alignment that warps: one index stands still somewhere
C9_Witness ==
    /\ Returned("Strict_interval_correlation")
    /\ alignment # NoAlignment
    /\ Len(alignment.index1) > Len(ref_sqnc)
    /\ Len(alignment.index2) > Len(test_sqnc)

\* cheapest monotone warping path from cell (i, j) to the last cell, where
\* a diagonal step into a cell costs w times its local cost and a
\* horizontal or vertical step once
RECURSIVE MinPathFrom(_, _, _, _, _)
MinPathFrom(x, y, i, j, w) ==
    IF i = Len(x) /\ j = Len(y) THEN 0
    ELSE LET diag == IF i < Len(x) /\ j < Len(y)
                     THEN {w * Abs(x[i + 1] - y[j + 1]) + MinPathFrom(x, y, i + 1, j + 1, w)}
                     ELSE {}
             right == IF j < Len(y)
                      THEN {Abs(x[i] - y[j + 1]) + MinPathFrom(x, y, i, j + 1, w)}
                      ELSE {}
             down == IF i < Len(x)
                     THEN {Abs(x[i + 1] - y[j]) + MinPathFrom(x, y, i + 1, j, w)}
                     ELSE {}
             S == diag \cup right \cup down
         IN  CHOOSE c \in S : \A d \in S : c <= d

MinPathCost(x, y, w) == Abs(x[1] - y[1]) + MinPathFrom(x, y, 1, 1, w)

\* the inputs on which the warping paths are enumerated
ShortInputs == Len(ref_sqnc) <= MaxLen /\ Len(test_sqnc) <= MaxLen

\* C10 as stated: the DTW distance is the minimum over all monotone warping
\* paths of the summed local cost.
C10_DistanceIsMinPathSum ==
    (Returned("dtw_distance_euclidean") /\ NonEmptyInputs /\ ShortInputs)
        => alignment.distance = MinPathCost(ref_sqnc, test_sqnc, 1)

\* C10 amended: the DTW distance is the minimum over all monotone warping
\* paths of the summed local cost in which a diagonal step counts its local
\* cost twice (the symmetric2 step pattern); the distance of a sequence
\* aligned with itself is 0.
C10_DistanceIsMinWeightedPathSum ==
    (Returned("dtw_distance_euclidean") /\ NonEmptyInputs /\ ShortInputs)
        => /\ alignment.distance = MinPathCost(ref_sqnc, test_sqnc, 2)
           /\ ref_sqnc = test_sqnc => alignment.distance = 0

C10_Witness ==
    /\ Returned("dtw_distance_euclidean")
    /\ NonEmptyInputs
    /\ ShortInputs
    /\ alignment.distance = MinPathCost(ref_sqnc, test_sqnc, 2)
    /\ alignment.distance > MinPathCost(ref_sqnc, test_sqnc, 1)

---------------------------------------------------------------------------
(* Weights and penalties of the policies (specification Spec) *)

Scored == pc = "returned" /\ callee \in Policies /\ scores # NoScores

\* a record of component scores that are all v
AllAt(keys, v) == [k \in keys |-> v]

ImprovedKeys == {"contour_score", "interval_score", "pitch_score", "rhythm_score"}

SequentialKeys ==
    {"pitch_score", "interval_score", "corr_score", "contour_score", "range_score"}

StrictKeys ==
    {"contour_score", "correlation_score", "exact_match_score", "pitch_score",
     "range_score", "density_score"}

UltraStrictKeys ==
    {"lcs_score", "correlation_score", "pattern_score", "motif_score", "pc_score"}

ComponentsOf(name, ref, test) ==
    CASE name = "ImprovedMelodyScore" -> ImprovedComponents(ref, test)
      [] name = "SequentialMelodyScore" -> SequentialComponents(ref, test)
      [] name = "StrictMelodyScore" -> StrictComponents(ref, test)
      [] name = "UltraStrictMelodyScore" -> UltraStrictComponents(ref, test)

\* the first L elements of a sequence
Truncate(seq, L) == SubSeq(seq, 1, Min2(Len(seq), L))

\* the maximum lengths a configuration could set below the longest melody
ConfigurableMaxima == 2..10

\* C14 as stated, for some maximum length L: a policy given a sequence
\* longer than L either rejects it (no component is computed) or computes
\* its components from the sequences truncated to L elements.
C14_OversizedRejectedOrTruncated ==
    \E L \in ConfigurableMaxima :
        \A name \in Policies :
            (/\ Returned(name)
             /\ (Len(ref_sqnc) > L \/ Len(test_sqnc) > L))
                => \/ scores = NoScores
                   \/ scores = ComponentsOf(name, Truncate(ref_sqnc, L),
                                            Truncate(test_sqnc, L))

ScoredBy(name) == Returned(name) /\ scores # NoScores

ShorterLen == Min2(Len(ref_sqnc), Len(test_sqnc))

LongerLen == Max2(Len(ref_sqnc), Len(test_sqnc))

\* length_ratio < 0.5
LengthRatioBelowHalf == 2 * ShorterLen < LongerLen

\* the UltraStrict score after the length penalty: the weighted score times
\* 2 * length_ratio when the ratio is below one half
AfterLengthPenalty ==
    IF LengthRatioBelowHalf THEN (weighted * 2 * ShorterLen) \div LongerLen
    ELSE weighted

\* how many of LCS, pattern match, motif and pitch-class overlap are exactly 0
ZeroCount ==
    (IF scores.lcs_score = 0 THEN 1 ELSE 0) + (IF scores.pattern_score = 0 THEN 1 ELSE 0)
      + (IF scores.motif_score = 0 THEN 1 ELSE 0) + (IF scores.pc_score = 0 THEN 1 ELSE 0)

\* C15: UltraStrict multiplies the score by 1 - 0.10 * count exactly when
\* count, the number of zeros among LCS, pattern match, motif and
\* pitch-class overlap, is at least 2 (a factor of 0.8, 0.7 or 0.6); with
\* count 0 or 1 the score is unchanged, whatever the correlation score is.
C15_ZeroComponentPenalty ==
    ScoredBy("UltraStrictMelodyScore") =>
        /\ ZeroCount >= 2 =>
              /\ final_score = (AfterLengthPenalty * (10 - ZeroCount)) \div 10
              /\ (10 - ZeroCount) \in {8, 7, 6}
        /\ ZeroCount < 2 => final_score = AfterLengthPenalty

\* two critical zeros and a zero correlation, equal lengths: the factor is 0.8
C15_Witness ==
    /\ ScoredBy("UltraStrictMelodyScore")
    /\ Len(ref_sqnc) = Len(test_sqnc)
    /\ ZeroCount = 2
    /\ scores.correlation_score = 0
    /\ weighted > 0
    /\ final_score = (weighted * 8) \div 10

\* C16: with both sequences at least 3 long and length_ratio below 0.5,
\* UltraStrict's length multiplier is 2 * length_ratio, strictly between 0
\* and 1; from 0.5 on there is none.  The returned score is never negative
\* and never above the weighted score.
C16_LengthPenaltyInRange ==
    ScoredBy("UltraStrictMelodyScore") =>
        LET penalised == UltraStrictLengthPenalty(weighted, Len(ref_sqnc), Len(test_sqnc))
        IN  /\ LengthRatioBelowHalf =>
                  /\ penalised = (weighted * 2 * ShorterLen) \div LongerLen
                  /\ weighted > 0 => penalised < weighted
                  /\ weighted >= LongerLen => penalised > 0
            /\ ~LengthRatioBelowHalf => penalised = weighted
            /\ ZeroCount < 2 => final_score = penalised
            /\ final_score >= 0
            /\ final_score <= weighted

\* three notes against eleven, one critical zero: the score is cut to 6/11
C16_Witness ==
    /\ ScoredBy("UltraStrictMelodyScore")
    /\ Len(ref_sqnc) = 3
    /\ Len(test_sqnc) = 11
    /\ ZeroCount < 2
    /\ final_score > 0
    /\ final_score < weighted
    /\ final_score = (weighted * 6) \div 11

\* C17: Strict multiplies the weighted score by 0.5 + length_ratio * 0.5
\* exactly when length_ratio is below 0.5; the factor is then strictly
\* between 0.5 and 0.75, so at most half of the score is removed; from 0.5
\* on the score is unchanged.
C17_StrictLengthPenalty ==
    ScoredBy("StrictMelodyScore") =>
        /\ LengthRatioBelowHalf =>
              /\ final_score = (weighted * (LongerLen + ShorterLen)) \div (2 * LongerLen)
              /\ 2 * (LongerLen + ShorterLen) > 2 * LongerLen
              /\ 4 * (LongerLen + ShorterLen) < 3 * (2 * LongerLen)
              /\ final_score >= weighted \div 2
              /\ 4 * final_score <= 3 * weighted
        /\ ~LengthRatioBelowHalf => final_score = weighted

\* two notes against nine: the factor is 11/18
C17_Witness ==
    /\ ScoredBy("StrictMelodyScore")
    /\ Len(ref_sqnc) = 9
    /\ Len(test_sqnc) = 2
    /\ weighted > 0
    /\ final_score = (weighted * 11) \div 18
    /\ 2 * final_score > weighted
    /\ final_score < weighted

---------------------------------------------------------------------------
(* Degenerate input of the metrics (specification SpecMetric) *)

\* the metrics that return a similarity score
SimilarityMetrics ==
    {"longest_common_subsequence", "exact_pattern_match",
     "interval_sequence_correlation", "melodic_motif_similarity",
     "pitch_class_overlap",
     "exact_contour_match", "Strict_interval_correlation", "exact_interval_match",
     "pitch_class_histogram_similarity", "melodic_range_similarity",
     "note_density_similarity",
     "dtw_similarity", "Sequential_interval_correlation",
     "Sequential_contour_similarity", "pitch_range_similarity",
     "Improved_contour_similarity", "interval_pattern_similarity",
     "pitch_class_similarity", "rhythm_similarity"}

\* C12: called with an empty sequence as either argument, every similarity
\* metric returns 0 and no DTW alignment has been computed; the distance
\* helper dtw_distance_euclidean computes no alignment either and reports
\* an infinite distance, on which its only caller is never reached.
C12_EmptyInputReturnsZero ==
    (pc = "returned" /\ EitherEmpty) =>
        /\ alignment = NoAlignment
        /\ callee \in SimilarityMetrics => final_score = 0
        /\ callee = "dtw_distance_euclidean" => final_score = -1

\* a DTW-based metric called with one empty argument
C12_Witness ==
    /\ Returned("interval_pattern_similarity")
    /\ Len(ref_sqnc) = MaxLen
    /\ test_sqnc = <<>>
    /\ final_score = 0
    /\ alignment = NoAlignment

---------------------------------------------------------------------------
(* The reference file round trip (specification SpecFile) *)

\* C13: the line a GUI writes for a pitch sequence (the values joined by
\* ',' followed by ',' and a newline) is read back as exactly that sequence
\* by every policy, with no ValueError, and the slicing parser and the
\* stripping parser agree on it; the empty sequence included.
C13_ReferenceRoundTrip ==
    /\ pc = "written" => ParseSlice(ref_txt) = ParseStrip(ref_txt)
    /\ pc = "parsed" =>
          /\ ~parsed.raised
          /\ parsed.value = ref_sqnc

\* three pitches of one, two and three digits, read back by the slicing parser
C13_Witness ==
    /\ pc = "parsed"
    /\ callee = "UltraStrictMelodyScore"
    /\ ref_sqnc = <<7, 60, 127>>
    /\ ref_txt = <<"7", ",", "6", "0", ",", "1", "2", "7", ",", "\n">>
    /\ parsed.value = <<7, 60, 127>>

---------------------------------------------------------------------------
(* The integer metrics of ultra_strict_comparison.py (specification        *)
(* SpecMetric)                                                             *)

\* the r-th smallest element of a set of indices
Nth(S, r) == CHOOSE x \in S : Cardinality({y \in S : y <= x}) = r

\* the order-preserving one-to-one pairings of n with m positions: equally
\* many positions of each side, paired in increasing order
OrderedPairings(n, m) ==
    {p \in (SUBSET (1..n)) \X (SUBSET (1..m)) : Cardinality(p[1]) = Cardinality(p[2])}

\* every pair of the pairing differs by at most t
PairingWithin(A, B, t, p) ==
    \A r \in 1..Cardinality(p[1]) : Abs(A[Nth(p[1], r)] - B[Nth(p[2], r)]) <= t

\* the largest size of such a pairing
MaxPairing(A, B, t) ==
    SetMax({Cardinality(p[1]) :
               p \in {q \in OrderedPairings(Len(A), Len(B)) : PairingWithin(A, B, t, q)}})

\* the inputs on which the pairings are enumerated
PairingInputs == Len(ref_sqnc) <= 7 /\ Len(test_sqnc) <= 7

\* C18: the length the LCS table ends with is the largest size of an
\* order-preserving one-to-one pairing of elements differing by at most the
\* tolerance, and the score is that size / max(|A|, |B|) * 100, or 0 when
\* both sequences are empty.
C18_LcsIsMaxPairing ==
    (Returned("longest_common_subsequence") /\ PairingInputs) =>
        LET best == MaxPairing(ref_sqnc, test_sqnc, tolerance)
            longer == Max2(Len(ref_sqnc), Len(test_sqnc))
        IN  /\ LcsLength(ref_sqnc, test_sqnc, tolerance) = best
            /\ final_score = IF longer > 0 THEN (best * Hundred) \div longer ELSE 0

\* tolerance 1 on [0,1,2] against [2,1,0]: 1 is within 1 of 0 and of 2, which
\* are 2 apart; the largest pairing has 2 pairs
C18_Witness ==
    /\ Returned("longest_common_subsequence")
    /\ tolerance = 1
    /\ ref_sqnc = <<0, 1, 2>>
    /\ test_sqnc = <<2, 1, 0>>
    /\ MaxPairing(ref_sqnc, test_sqnc, 1) = 2
    /\ final_score = (2 * Hundred) \div 3

\* the positions (1-based) of the window at 0-based offset i where the
\* pattern differs from the target
Mismatches(pattern, target, i) ==
    {j \in 1..Len(pattern) : pattern[j] # target[i + j]}

\* the matches of the window at offset i that come before its (gap+1)-th
\* mismatch, or all its matches when it has at most gap mismatches
MatchesBeforeCutoff(pattern, target, i, gap) ==
    LET mism == Mismatches(pattern, target, i)
        cutoff == IF Cardinality(mism) > gap THEN Nth(mism, gap + 1)
                  ELSE Len(pattern) + 1
    IN  Cardinality({j \in 1..Len(pattern) :
                        j < cutoff /\ pattern[j] = target[i + j]})

\* C19: for a non-empty pattern no longer than the target,
\* exact_pattern_match returns 100 times the largest, over the offsets
\* 0..len(target)-len(pattern), number of matches before the window's
\* (max_gap+1)-th mismatch, divided by len(pattern).
C19_PatternMatchFormula ==
    (/\ Returned("exact_pattern_match")
     /\ Len(ref_sqnc) > 0
     /\ Len(ref_sqnc) <= Len(test_sqnc)) =>
        final_score =
            (SetMax({MatchesBeforeCutoff(ref_sqnc, test_sqnc, i, max_gap) :
                        i \in 0..(Len(test_sqnc) - Len(ref_sqnc))}) * Hundred)
                \div Len(ref_sqnc)

\* max_gap 0 on [0,1,0] against [0,2,0]: the scan stops at the mismatch in
\* the middle, the first match counts and the last one is never seen
C19_Witness ==
    /\ Returned("exact_pattern_match")
    /\ max_gap = 0
    /\ ref_sqnc = <<0, 1, 0>>
    /\ test_sqnc = <<0, 2, 0>>
    /\ final_score = (1 * Hundred) \div 3

\* the start indices of the 3-element windows of a sequence
WindowStarts(seq) == 1..(Len(seq) - 2)

\* the windows at i of A and at k of B differ by at most 1 in all three
\* positions
WindowsWithinOne(A, i, B, k) ==
    \A p \in 0..2 : Abs(A[i + p] - B[k + p]) <= 1

\* C20: melodic_motif_similarity returns 100 times the number of 3-element
\* windows of A that some 3-element window of B matches within 1 in every
\* position, divided by the number of windows of A; the result is in
\* [0, 100], and it is 0 when either sequence has fewer than 3 elements.
C20_MotifSimilarityFormula ==
    Returned("melodic_motif_similarity") =>
        /\ (Len(ref_sqnc) < 3 \/ Len(test_sqnc) < 3) => final_score = 0
        /\ (Len(ref_sqnc) >= 3 /\ Len(test_sqnc) >= 3) =>
              final_score =
                  (Cardinality({i \in WindowStarts(ref_sqnc) :
                                   \E k \in WindowStarts(test_sqnc) :
                                       WindowsWithinOne(ref_sqnc, i, test_sqnc, k)})
                     * Hundred) \div Cardinality(WindowStarts(ref_sqnc))
        /\ final_score >= 0
        /\ final_score <= Hundred

\* a window of A matched by several windows of B, and a window of A matched
\* by none
C20_Witness ==
    /\ Returned("melodic_motif_similarity")
    /\ \E i \in WindowStarts(ref_sqnc) :
           Cardinality({k \in WindowStarts(test_sqnc) :
                           WindowsWithinOne(ref_sqnc, i, test_sqnc, k)}) > 1
    /\ \E i \in WindowStarts(ref_sqnc) :
           \A k \in WindowStarts(test_sqnc) :
               ~WindowsWithinOne(ref_sqnc, i, test_sqnc, k)
    /\ final_score > 0
    /\ final_score < Hundred

---------------------------------------------------------------------------
(* The sliding-window metrics of strict_comparison.py (specification       *)
(* SpecMetric)                                                             *)

SlidingMetrics == {"exact_contour_match", "exact_interval_match"}

SlidingCall == pc = "returned" /\ callee \in SlidingMetrics /\ NonEmptyInputs

\* C21: in exact_contour_match and exact_interval_match on non-empty inputs
\* the pattern is never longer than the target, so at least one offset is
\* evaluated and the branch for a longer pattern (the DTW fallback of
\* exact_contour_match, the early 0 of exact_interval_match) is not taken
C21_PatternNotLongerThanTarget ==
    SlidingCall =>
        /\ Len(Strict_pattern(ref_sqnc, test_sqnc)) <= Len(Strict_target(ref_sqnc, test_sqnc))
        /\ Strict_offsets(ref_sqnc, test_sqnc) # {}
        /\ alignment = NoAlignment

\* exact_contour_match has slid the shorter second argument over more than
\* one offset of the longer first one
C21_Witness ==
    /\ SlidingCall
    /\ callee = "exact_contour_match"
    /\ Len(ref_sqnc) > Len(test_sqnc)
    /\ Cardinality(Strict_offsets(ref_sqnc, test_sqnc)) > 1
    /\ final_score > 0

\* the metric called in this state, applied to the arguments in the other order
SlidingSwapped ==
    IF callee = "exact_contour_match"
    THEN exact_contour_match(test_sqnc, ref_sqnc)
    ELSE exact_interval_match(test_sqnc, ref_sqnc)

\* C26: exact_contour_match and exact_interval_match are symmetric in their
\* arguments on non-empty sequences, sequences of equal length included
C26_SlidingMetricsSymmetric ==
    SlidingCall => final_score = SlidingSwapped

\* exact_interval_match has compared two different sequences of equal
\* length that match in some positions only
C26_Witness ==
    /\ SlidingCall
    /\ callee = "exact_interval_match"
    /\ Len(ref_sqnc) = Len(test_sqnc)
    /\ ref_sqnc # test_sqnc
    /\ final_score > 0
    /\ final_score < Hundred

---------------------------------------------------------------------------
(* The range metric of sequential_comparison.py and strict_comparison.py   *)
(* (specification SpecMetric)                                              *)

RangeMetrics == {"pitch_range_similarity", "melodic_range_similarity"}

RangeCall == pc = "returned" /\ callee \in RangeMetrics

\* the largest difference between two elements of a non-empty sequence
Spread(seq) == SetMax({seq[i] - seq[j] : i, j \in 1..Len(seq)})

NoRange(seq) == Len(seq) = 0 \/ Spread(seq) = 0

\* the metric called in this state, applied to the arguments in the other order
RangeSwapped ==
    IF callee = "pitch_range_similarity"
    THEN pitch_range_similarity(test_sqnc, ref_sqnc)
    ELSE melodic_range_similarity(test_sqnc, ref_sqnc)

\* C24: the range metric is 0 when either sequence is empty or has range 0,
\* two identical constant sequences included; otherwise it is
\* 100 * min(range1, range2) / max(range1, range2), which is in (0, 100] and
\* the same in both argument orders
C24_RangeSimilarity ==
    RangeCall =>
        IF NoRange(ref_sqnc) \/ NoRange(test_sqnc)
        THEN final_score = 0
        ELSE LET range1 == Spread(ref_sqnc)
                 range2 == Spread(test_sqnc)
             IN  /\ final_score * Max2(range1, range2) <= Min2(range1, range2) * Hundred
                 /\ (final_score + 1) * Max2(range1, range2) > Min2(range1, range2) * Hundred
                 /\ final_score > 0
                 /\ final_score <= Hundred
                 /\ final_score = RangeSwapped

\* melodic_range_similarity has compared two sequences of different,
\* non-zero ranges
C24_Witness ==
    /\ RangeCall
    /\ callee = "melodic_range_similarity"
    /\ ~NoRange(ref_sqnc)
    /\ ~NoRange(test_sqnc)
    /\ Spread(ref_sqnc) < Spread(test_sqnc)
    /\ final_score > 0
    /\ final_score < Hundred

---------------------------------------------------------------------------
(* normalize_sequence (specification SpecMetric) *)

Constant(seq) == \A i, j \in 1..Len(seq) : seq[i] = seq[j]

\* C23: normalize_sequence returns the empty sequence for the empty
\* sequence, and for a non-empty constant sequence (whose deviation is 0,
\* and is not divided by) a sequence of the same length whose elements are
\* all 0
C23_NormalizeConstant ==
    (pc = "returned" /\ callee = "normalize_sequence" /\ Constant(ref_sqnc)) =>
        /\ VarN2(ref_sqnc) = 0
        /\ Len(norm1) = Len(ref_sqnc)
        /\ \A i \in 1..Len(norm1) : norm1[i] = 0

\* a constant sequence of several non-zero elements has been normalised
C23_Witness ==
    /\ pc = "returned"
    /\ callee = "normalize_sequence"
    /\ Constant(ref_sqnc)
    /\ Len(ref_sqnc) > 1
    /\ ref_sqnc[1] # 0
    /\ norm1 = [i \in 1..Len(ref_sqnc) |-> 0]

---------------------------------------------------------------------------
(* The pattern component of UltraStrictMelodyScore (specification Spec) *)

RefContour == extract_contour(extract_intervals(ref_sqnc))

TestContour == extract_contour(extract_intervals(test_sqnc))

IsPrefix(s, t) == Len(s) <= Len(t) /\ s = SubSeq(t, 1, Len(s))

\* C27: exact_pattern_match returns 0 when the pattern is longer than the
\* target, whatever max_gap is, because no offset is evaluated; so the
\* pattern component of UltraStrictMelodyScore is 0 whenever the reference
\* has more notes than the test
C27_LongerReferenceScoresNoPattern ==
    (ScoredBy("UltraStrictMelodyScore") /\ Len(ref_sqnc) > Len(test_sqnc)) =>
        /\ 0..(Len(TestContour) - Len(RefContour)) = {}
        /\ \A g \in 0..MaxGap : exact_pattern_match(RefContour, TestContour, g) = 0
        /\ scores.pattern_score = 0

\* the test contour is a proper prefix of the reference contour, and the
\* pattern component is 0
C27_Witness ==
    /\ ScoredBy("UltraStrictMelodyScore")
    /\ Len(ref_sqnc) > Len(test_sqnc)
    /\ IsPrefix(TestContour, RefContour)
    /\ scores.pattern_score = 0

---------------------------------------------------------------------------
(* The calls of dtw_similarity in SequentialMelodyScore (specification     *)
(* Spec)                                                                   *)

\* C30: past its length gate SequentialMelodyScore hands dtw_similarity
\* pitch sequences of at least 10 and interval sequences of at least 9
\* elements, so dtw_similarity never returns its scalar 0.0 there and the
\* unpacking of its result into two names never raises
C30_DtwSimilarityReturnsPair ==
    callee = "SequentialMelodyScore" =>
        /\ pc # "raised"
        /\ scores # NoScores =>
               /\ Len(ref_sqnc) >= 10
               /\ Len(test_sqnc) >= 10
               /\ Len(extract_intervals(ref_sqnc)) >= 9
               /\ Len(extract_intervals(test_sqnc)) >= 9

\* SequentialMelodyScore has unpacked both results of dtw_similarity and
\* returned a score
C30_Witness ==
    /\ ScoredBy("SequentialMelodyScore")
    /\ ref_sqnc # test_sqnc
    /\ scores.pitch_score > 0
    /\ scores.interval_score > 0
    /\ final_score > 0

---------------------------------------------------------------------------
(* The scoring curves of sequential_comparison.py (specification SpecCurve) *)

CurveOfDistance == pc = "returned" /\ callee = "dtw_similarity" /\ dtw_dist # NoScore

\* the breakpoints of the curve and the scores the pieces meet at
Breakpoints ==
    {[at |-> (45 * Scale) \div 100, score |-> 85 * Scale],
     [at |-> (55 * Scale) \div 100, score |-> 40 * Scale],
     [at |-> (70 * Scale) \div 100, score |-> 10 * Scale]}

\* the piece that ends at a breakpoint, continued to the breakpoint
PieceBefore(at, d) ==
    IF 100 * at = 45 * Scale THEN SequentialCurve1(d)
    ELSE IF 100 * at = 55 * Scale THEN SequentialCurve2(d)
    ELSE SequentialCurve3(d)

\* the steepest piece falls by 45 points over a distance of 0.10
SteepestFall == (45 * Scale * 10) \div Scale

CurveOfCorrelation ==
    /\ pc = "returned"
    /\ callee = "Sequential_interval_correlation"
    /\ aligned_n >= 10
    /\ Significant(pearson_r, aligned_n)

\* C25: for significant correlations over at least 10 aligned samples the
\* score of interval_correlation never falls when the coefficient grows
C25_CorrelationScoreMonotone ==
    CurveOfCorrelation =>
        \A larger \in pearson_r..Scale :
            Significant(larger, aligned_n) =>
                CorrelationScore(larger, aligned_n) >= final_score


---------------------------------------------------------------------------
(* Properties of the GUI front-ends (specifications SpecGUI, SpecGUIFair) *)

\* the runs of compare_melodies that have started and not ended
RunningWorkers == {w \in Workers : Running(w)}

\* C28: in the threaded front-ends at most one run of compare_melodies is
\* going on at any time, whatever the interleaving of the clicks on the
\* compare button with the start of the worker
C28_AtMostOneWorker ==
    app \in ThreadedGUIs => Cardinality(RunningWorkers) <= 1

Ended(w) == worker[w].at = "done"

\* the step in which the run w ends
Ends(w) == ~Ended(w) /\ (worker[w].at = "done")'

=============================================================================
